---- MODULE Spec2Model ----
(***************************************************************************)
(* Translation-string cleaning pass of generate_excel_simple.py and        *)
(* generate_excel.py: the string classifier (_is_technical_string), the    *)
(* deduplicator (clean_and_deduplicate_strings) and the category grouping  *)
(* (organize_by_sheets).  Python strings are sequences of one-character    *)
(* strings; records are objects on a heap, a list is a sequence of object  *)
(* ids, so that the in-place mutation of a record is visible through every *)
(* list that holds it.                                                     *)
(***************************************************************************)
EXTENDS Integers, Sequences, FiniteSets, TLC

VARIABLES
    script,        \* which script runs: "simple" (generate_excel_simple.py), "full"
                   \* (generate_excel.py) or "complete" (create_notifications_excel_complete.py)
    pc,            \* position of the run
    text,          \* argument of _is_technical_string
    verdict,       \* per script: "none" or the BOOLEAN the classifier returned for text
    heap,          \* object id -> record (the dicts json.load built), current field values
    heap0,         \* the heap as loaded, before any call (history)
    strings_data,  \* argument list of the running call: sequence of object ids
    i,             \* index of the next element of the running for loop
    seen,          \* clean_and_deduplicate_strings: dict key -> object id
    cleaned,       \* clean_and_deduplicate_strings: list of object ids
    call,          \* the running call of clean_and_deduplicate_strings: 1 the first, 2 on its output, 3 on its input again
    first,         \* records (by value) returned by the first call, once a second call started
    decided,       \* object id -> "reject" or "accept": what the running call did with the record
    sheets_data,   \* organize_by_sheets: category -> list of rows
    sheets_order,  \* the keys of the dict sheets_data in insertion order
    json_file,     \* translation_strings.json: "missing", "malformed" or the parsed document
    metadata,      \* data['metadata'] of the running script
    disk,          \* file name -> content, for the files the run wrote
    dir_exists,    \* the directory translation_sheets exists
    dir_made,      \* the run created the directory translation_sheets
    file_count,    \* create_csv_files: number of category files written
    failed,        \* the steps of the run that raised
    outcome,       \* exit status of the run, -1 while it runs
    writer,        \* generate_excel.py: sheets of the pd.ExcelWriter being filled
    workbook,      \* csv_to_excel.py: sheets of the xlsxwriter workbook
    wb,            \* csv_to_excel.py: sheets of the openpyxl workbook
    HAS_XLSXWRITER, \* csv_to_excel.py: import xlsxwriter succeeded
    HAS_OPENPYXL,  \* csv_to_excel.py: import openpyxl succeeded
    invoked,       \* csv_to_excel.main: the writers it called, in call order
    completed,     \* csv_to_excel.main: the writers that returned
    printed,       \* csv_to_excel.main: the messages it printed
    counts         \* create_notifications_excel_complete.py: the counts of the summary

vars == <<script, pc, text, verdict, heap, heap0, strings_data, i, seen, cleaned,
          call, first, decided, sheets_data, sheets_order, json_file, metadata, disk,
          dir_exists, dir_made, file_count, failed, outcome, writer, workbook, wb,
          HAS_XLSXWRITER, HAS_OPENPYXL, invoked, completed, printed, counts>>

classVars == <<text, verdict>>
cleanVars == <<heap, heap0, strings_data, i, seen, cleaned, call, first, decided>>
envVars == <<json_file, metadata, disk, dir_exists, dir_made, file_count, failed, outcome>>
bookVars == <<writer, workbook, wb, HAS_XLSXWRITER, HAS_OPENPYXL, invoked, completed,
              printed, counts>>

(***************************************************************************)
(* Bounds of the model.                                                    *)
(***************************************************************************)
MaxLen == 4        \* longest text given to the classifier
MaxRecords == 3    \* longest list of records given to a pass
MaxCells == 3      \* most cells in a row of a CSV file
MaxRows == 2       \* most rows in a CSV file

Scripts == {"simple", "full"}

(***************************************************************************)
(* Python str primitives on sequences of characters.                       *)
(***************************************************************************)
UpperLetters ==
    <<"A","B","C","D","E","F","G","H","I","J","K","L","M",
      "N","O","P","Q","R","S","T","U","V","W","X","Y","Z">>

LowerLetters ==
    <<"a","b","c","d","e","f","g","h","i","j","k","l","m",
      "n","o","p","q","r","s","t","u","v","w","x","y","z">>

Range(s) == {s[k] : k \in DOMAIN s}

UpperSet == Range(UpperLetters)

LowerSet == Range(LowerLetters)

\* the lowercase letter of each uppercase letter
LowerOf ==
    [c \in UpperSet |->
        LowerLetters[CHOOSE k \in DOMAIN UpperLetters : UpperLetters[k] = c]]

\* c.isupper()
IsUpperChar(c) == c \in UpperSet

\* c.islower()
IsLowerChar(c) == c \in LowerSet

\* c.isalpha()
IsAlphaChar(c) == IsUpperChar(c) \/ IsLowerChar(c)

\* c.isspace()
IsSpaceChar(c) == c \in {" ", "\t", "\n", "\r"}

\* c.lower()
LowerChar(c) == IF IsUpperChar(c) THEN LowerOf[c] ELSE c

\* s.lower()
Lower(s) == [k \in 1..Len(s) |-> LowerChar(s[k])]

\* s.strip()
Strip(s) ==
    LET keep == {k \in 1..Len(s) : ~IsSpaceChar(s[k])}
        lo == CHOOSE k \in keep : \A j \in keep : k <= j
        hi == CHOOSE k \in keep : \A j \in keep : j <= k
    IN  IF keep = {} THEN <<>> ELSE SubSeq(s, lo, hi)

\* needle in hay
Contains(hay, needle) ==
    \E k \in 0..(Len(hay) - Len(needle)) :
        SubSeq(hay, k + 1, k + Len(needle)) = needle

\* s.count(c)
Count(s, c) == Cardinality({k \in 1..Len(s) : s[k] = c})

\* s.isalpha(): non-empty and every character a letter
IsAlpha(s) == Len(s) > 0 /\ \A k \in 1..Len(s) : IsAlphaChar(s[k])

\* s.isupper(): at least one cased character and no lowercase one
IsUpper(s) ==
    /\ \E k \in 1..Len(s) : IsUpperChar(s[k])
    /\ \A k \in 1..Len(s) : ~IsLowerChar(s[k])

(***************************************************************************)
(* The String Classifier.                                                  *)
(***************************************************************************)
\* technical_keywords of generate_excel_simple.py
technical_keywords_simple ==
    << <<"w","i","d","g","e","t">>,
       <<"c","o","n","t","r","o","l","l","e","r">>,
       <<"s","e","r","v","i","c","e">>,
       <<"m","o","d","e","l">>,
       <<"p","r","o","v","i","d","e","r">>,
       <<"f","i","r","e","b","a","s","e">>,
       <<"f","i","r","e","s","t","o","r","e">>,
       <<"c","o","l","l","e","c","t","i","o","n">>,
       <<"d","o","c","u","m","e","n","t">>,
       <<".","d","a","r","t">>,
       <<".","j","s","o","n">>,
       <<"t","o","S","t","r","i","n","g">>,
       <<"o","v","e","r","r","i","d","e">>,
       <<"a","s","y","n","c">>,
       <<"a","w","a","i","t">>,
       <<"c","l","a","s","s">>,
       <<"e","x","t","e","n","d","s">>,
       <<"i","m","p","l","e","m","e","n","t","s">>,
       <<"v","o","i","d">>,
       <<"S","t","r","i","n","g">>,
       <<"i","n","t">>,
       <<"b","o","o","l">>,
       <<"d","o","u","b","l","e">>,
       <<"L","i","s","t">>,
       <<"M","a","p">>,
       <<"s","e","t","S","t","a","t","e">>,
       <<"i","n","i","t","S","t","a","t","e">>,
       <<"d","i","s","p","o","s","e">>,
       <<"b","u","i","l","d">>,
       <<"B","u","i","l","d","C","o","n","t","e","x","t">>,
       <<"S","t","a","t","e","f","u","l","W","i","d","g","e","t">>,
       <<"S","t","a","t","e","l","e","s","s","W","i","d","g","e","t">> >>

\* technical_keywords of generate_excel.py
technical_keywords_full ==
    << <<"w","i","d","g","e","t">>,
       <<"c","o","n","t","r","o","l","l","e","r">>,
       <<"s","e","r","v","i","c","e">>,
       <<"m","o","d","e","l">>,
       <<"p","r","o","v","i","d","e","r">>,
       <<"f","i","r","e","b","a","s","e">>,
       <<"f","i","r","e","s","t","o","r","e">>,
       <<"c","o","l","l","e","c","t","i","o","n">>,
       <<"d","o","c","u","m","e","n","t">>,
       <<".","d","a","r","t">>,
       <<".","j","s","o","n">>,
       <<"t","o","S","t","r","i","n","g">>,
       <<"o","v","e","r","r","i","d","e">>,
       <<"a","s","y","n","c">>,
       <<"a","w","a","i","t">>,
       <<"c","l","a","s","s">>,
       <<"e","x","t","e","n","d","s">>,
       <<"i","m","p","l","e","m","e","n","t","s">>,
       <<"v","o","i","d">>,
       <<"S","t","r","i","n","g">>,
       <<"i","n","t">>,
       <<"b","o","o","l">>,
       <<"d","o","u","b","l","e">>,
       <<"L","i","s","t">>,
       <<"M","a","p">>,
       <<"s","e","t","S","t","a","t","e">>,
       <<"i","n","i","t","S","t","a","t","e">>,
       <<"d","i","s","p","o","s","e">>,
       <<"b","u","i","l","d">> >>

\* keyword.lower() of each keyword of generate_excel_simple.py
lowered_keywords_simple ==
    [k \in DOMAIN technical_keywords_simple |-> Lower(technical_keywords_simple[k])]

\* generate_excel_simple.py: keyword.lower() in lower_text, for some keyword
KeywordHitSimple(t) ==
    LET lower_text == Lower(t)
    IN  \E k \in DOMAIN lowered_keywords_simple :
            Contains(lower_text, lowered_keywords_simple[k])

\* generate_excel.py: keyword in lower_text, for some keyword (the keyword as written)
KeywordHitFull(t) ==
    LET lower_text == Lower(t)
    IN  \E k \in DOMAIN technical_keywords_full :
            Contains(lower_text, technical_keywords_full[k])

\* the length below which an all-uppercase text counts as a constant
SheetNameLimit == 31   \* sheet_name[:31]
ShortLimit == 10

\* any(c.isupper() for c in text[1:])
UpperAfterFirst(t) == \E k \in 2..Len(t) : IsUpperChar(t[k])

\* any(c.isspace() for c in text)
HasSpace(t) == \E k \in 1..Len(t) : IsSpaceChar(t[k])

\* the camelCase test without its whitespace condition
IsTechnicalSimpleNoSpaceTest(t) ==
    IF KeywordHitSimple(t) THEN TRUE
    ELSE IF Len(t) > 3 /\ UpperAfterFirst(t) THEN TRUE
    ELSE IF Count(t, "_") > 1 THEN TRUE
    ELSE IF Len(t) < 3 /\ ~IsAlpha(t) THEN TRUE
    ELSE IF IsUpper(t) /\ Len(t) < ShortLimit THEN TRUE
    ELSE FALSE

\* the camelCase test without its length condition
IsTechnicalSimpleShortCamel(t) ==
    IF KeywordHitSimple(t) THEN TRUE
    ELSE IF UpperAfterFirst(t) /\ ~HasSpace(t) THEN TRUE
    ELSE IF Count(t, "_") > 1 THEN TRUE
    ELSE IF Len(t) < 3 /\ ~IsAlpha(t) THEN TRUE
    ELSE IF IsUpper(t) /\ Len(t) < ShortLimit THEN TRUE
    ELSE FALSE

\* _is_technical_string of generate_excel_simple.py
IsTechnicalSimple(t) ==
    IF KeywordHitSimple(t) THEN TRUE
    ELSE IF Len(t) > 3 /\ UpperAfterFirst(t) /\ ~HasSpace(t) THEN TRUE
    ELSE IF Count(t, "_") > 1 THEN TRUE
    ELSE IF Len(t) < 3 /\ ~IsAlpha(t) THEN TRUE
    ELSE IF IsUpper(t) /\ Len(t) < ShortLimit THEN TRUE
    ELSE FALSE

\* _is_technical_string of generate_excel.py
IsTechnicalFull(t) ==
    IF KeywordHitFull(t) THEN TRUE
    ELSE IF UpperAfterFirst(t) /\ ~HasSpace(t) THEN TRUE
    ELSE IF Count(t, "_") > 1 THEN TRUE
    ELSE IF Len(t) < 3 /\ ~IsAlpha(t) THEN TRUE
    ELSE FALSE

\* a classifier that keeps rejecting once the running call rejected a text
IsTechnicalSticky(s, t) ==
    \/ IF s = "simple" THEN IsTechnicalSimple(t) ELSE IsTechnicalFull(t)
    \/ \E k \in DOMAIN decided : decided[k] = "reject"

\* the classifier the running script calls
IsTechnical(s, t) == IF s = "simple" THEN IsTechnicalSimple(t) ELSE IsTechnicalFull(t)

(***************************************************************************)
(* Inputs of the model.                                                    *)
(***************************************************************************)
\* characters of the texts given to the classifier
Alphabet == {"M", "m", "a", "p", " ", "_", "1"}

\* every text over Alphabet of at most MaxLen characters
ShortTexts == UNION {[1..n -> Alphabet] : n \in 0..MaxLen}

\* uppercase words and spaces, one character below ShortLimit and at it
LongTexts == UNION {[1..n -> {"M", " "}] : n \in {ShortLimit - 1, ShortLimit}}

\* the texts given to the classifier
Texts == ShortTexts \cup LongTexts

\* texts of the records given to the deduplicator, two spellings of one key:
\* both scripts accept the first, only generate_excel.py accepts the second
CleanTexts == {<<"m","m">>, <<"M","M"," ">>}

\* screen contexts of the records
Contexts == {<<"a">>, <<"a","b">>}

\* categories of the records given to the deduplicator
CleanCategories == {"Authentication", "Common/Shared"}

\* records json.load can build for the deduplicator
CleanRecords ==
    [text : CleanTexts, screenContext : Contexts, category : CleanCategories,
     notes : {""}]

\* records that differ in context, category and notes, two of them of each key
MixedRecords ==
    {r \in [text : CleanTexts, screenContext : Contexts, category : CleanCategories,
            notes : {"", "n"}] :
        (r.notes = "n") <=> ((r.screenContext = <<"a">>) <=> (r.category = "Common/Shared"))}

\* records given to organize_by_sheets: one category is not a fixed one
SheetRecords ==
    [text : {<<"m","m">>}, screenContext : Contexts,
     category : {"Authentication", "Common/Shared", "Onboarding"},
     notes : {"", "n"}]

\* lists of at most MaxRecords records drawn from R
Lists(R) == UNION {[1..n -> R] : n \in 0..MaxRecords}

\* the list [1, .., n] of object ids
Ids(n) == [k \in 1..n |-> k]

(***************************************************************************)
(* _is_technical_string as a step: both scripts' classifiers on one text.  *)
(***************************************************************************)
Decision(b) == IF b THEN "reject" ELSE "accept"

ClassifySimple ==
    /\ pc = "classify"
    /\ verdict["simple"] = "none"
    /\ verdict' = [verdict EXCEPT !["simple"] = Decision(IsTechnicalSimple(text))]
    /\ UNCHANGED <<script, pc, text, sheets_data>>
    /\ UNCHANGED cleanVars
    /\ UNCHANGED sheets_order
    /\ UNCHANGED envVars
    /\ UNCHANGED bookVars

ClassifyFull ==
    /\ pc = "classify"
    /\ verdict["full"] = "none"
    /\ verdict' = [verdict EXCEPT !["full"] = Decision(IsTechnicalFull(text))]
    /\ UNCHANGED <<script, pc, text, sheets_data>>
    /\ UNCHANGED cleanVars
    /\ UNCHANGED sheets_order
    /\ UNCHANGED envVars
    /\ UNCHANGED bookVars

(***************************************************************************)
(* clean_and_deduplicate_strings, one loop iteration per step.             *)
(***************************************************************************)
\* string_obj of the running iteration
string_obj == heap[strings_data[i]]

\* a key that forgets .lower()
KeyOfNoLower(t, c) == <<Strip(t), c>>

\* a key that forgets the category
KeyOfTextOnly(t, c) == <<Strip(Lower(t)), "">>

\* key = (text.lower().strip(), category)
KeyOf(t, c) == <<Strip(Lower(t)), c>>

\* a merge that appends without the substring test
MergedContextAlways(existing, screen) == existing \o <<";", " ">> \o screen

\* a merge with the substring test inverted
MergedContextInverted(existing, screen) ==
    IF Contains(existing, screen)
    THEN existing \o <<";", " ">> \o screen
    ELSE existing

\* existing['screenContext'] after the else branch ran with screen
MergedContext(existing, screen) ==
    IF ~Contains(existing, screen)
    THEN existing \o <<";", " ">> \o screen
    ELSE existing

\* if _is_technical_string(text): continue
CleanSkip ==
    /\ pc = "clean"
    /\ i <= Len(strings_data)
    /\ IsTechnical(script, string_obj.text)
    /\ i' = i + 1
    /\ UNCHANGED <<script, pc, sheets_data, heap, heap0, strings_data, seen, cleaned,
                   call, first>>
    /\ UNCHANGED classVars
    /\ UNCHANGED bookVars
    /\ UNCHANGED sheets_order
    /\ decided' = (strings_data[i] :> "reject") @@ decided
    /\ UNCHANGED envVars

\* an insert that puts the record at the head of cleaned
CleanInsertAtHead ==
    /\ pc = "clean"
    /\ i <= Len(strings_data)
    /\ ~IsTechnical(script, string_obj.text)
    /\ LET key == KeyOf(string_obj.text, string_obj.category)
       IN  /\ key \notin DOMAIN seen
           /\ seen' = (key :> strings_data[i]) @@ seen
           /\ cleaned' = <<strings_data[i]>> \o cleaned
    /\ i' = i + 1
    /\ UNCHANGED <<script, pc, sheets_data, heap, heap0, strings_data, call, first>>
    /\ UNCHANGED classVars
    /\ UNCHANGED bookVars
    /\ UNCHANGED sheets_order
    /\ decided' = (strings_data[i] :> "accept") @@ decided
    /\ UNCHANGED envVars

\* if key not in seen: seen[key] = string_obj; cleaned.append(string_obj)
CleanInsert ==
    /\ pc = "clean"
    /\ i <= Len(strings_data)
    /\ ~IsTechnical(script, string_obj.text)
    /\ LET key == KeyOf(string_obj.text, string_obj.category)
       IN  /\ key \notin DOMAIN seen
           /\ seen' = (key :> strings_data[i]) @@ seen
           /\ cleaned' = Append(cleaned, strings_data[i])
    /\ i' = i + 1
    /\ UNCHANGED <<script, pc, sheets_data, heap, heap0, strings_data, call, first>>
    /\ UNCHANGED classVars
    /\ UNCHANGED bookVars
    /\ UNCHANGED sheets_order
    /\ decided' = (strings_data[i] :> "accept") @@ decided
    /\ UNCHANGED envVars

\* a merge in which the later record's notes win
CleanMergeLastNotes ==
    /\ pc = "clean"
    /\ i <= Len(strings_data)
    /\ ~IsTechnical(script, string_obj.text)
    /\ LET key == KeyOf(string_obj.text, string_obj.category)
           screen == string_obj.screenContext
       IN  /\ key \in DOMAIN seen
           /\ heap' = [heap EXCEPT ![seen[key]].screenContext = MergedContext(@, screen),
                                   ![seen[key]].notes = string_obj.notes]
    /\ i' = i + 1
    /\ UNCHANGED <<script, pc, sheets_data, heap0, strings_data, seen, cleaned, call,
                   first>>
    /\ UNCHANGED classVars
    /\ UNCHANGED bookVars
    /\ UNCHANGED sheets_order
    /\ decided' = (strings_data[i] :> "accept") @@ decided
    /\ UNCHANGED envVars

\* a merge that appends to the record at hand instead of the first-seen one
CleanMergeIntoCurrent ==
    /\ pc = "clean"
    /\ i <= Len(strings_data)
    /\ ~IsTechnical(script, string_obj.text)
    /\ LET key == KeyOf(string_obj.text, string_obj.category)
           screen == heap[seen[key]].screenContext
       IN  /\ key \in DOMAIN seen
           /\ heap' = [heap EXCEPT ![strings_data[i]].screenContext = MergedContext(@, screen)]
    /\ i' = i + 1
    /\ UNCHANGED <<script, pc, sheets_data, heap0, strings_data, seen, cleaned, call,
                   first>>
    /\ UNCHANGED classVars
    /\ UNCHANGED bookVars
    /\ UNCHANGED sheets_order
    /\ decided' = (strings_data[i] :> "accept") @@ decided
    /\ UNCHANGED envVars

\* a merge that is not kept from records the classifier rejects
CleanMergeUnfiltered ==
    /\ pc = "clean"
    /\ i <= Len(strings_data)
    /\ LET key == KeyOf(string_obj.text, string_obj.category)
           screen == string_obj.screenContext
       IN  /\ key \in DOMAIN seen
           /\ heap' = [heap EXCEPT ![seen[key]].screenContext = MergedContext(@, screen)]
    /\ i' = i + 1
    /\ UNCHANGED <<script, pc, sheets_data, heap0, strings_data, seen, cleaned, call,
                   first>>
    /\ UNCHANGED classVars
    /\ UNCHANGED bookVars
    /\ UNCHANGED sheets_order
    /\ decided' = (strings_data[i] :> "accept") @@ decided
    /\ UNCHANGED envVars

\* else: existing = seen[key]; append "; screen" unless screen is in its context
CleanMerge ==
    /\ pc = "clean"
    /\ i <= Len(strings_data)
    /\ ~IsTechnical(script, string_obj.text)
    /\ LET key == KeyOf(string_obj.text, string_obj.category)
           screen == string_obj.screenContext
       IN  /\ key \in DOMAIN seen
           /\ heap' = [heap EXCEPT ![seen[key]].screenContext = MergedContext(@, screen)]
    /\ i' = i + 1
    /\ UNCHANGED <<script, pc, sheets_data, heap0, strings_data, seen, cleaned, call,
                   first>>
    /\ UNCHANGED classVars
    /\ UNCHANGED bookVars
    /\ UNCHANGED sheets_order
    /\ decided' = (strings_data[i] :> "accept") @@ decided
    /\ UNCHANGED envVars

\* return cleaned
CleanReturn ==
    /\ pc = "clean"
    /\ i > Len(strings_data)
    /\ pc' = "returned"
    /\ UNCHANGED <<script, sheets_data>>
    /\ UNCHANGED cleanVars
    /\ UNCHANGED classVars
    /\ UNCHANGED bookVars
    /\ UNCHANGED sheets_order
    /\ UNCHANGED envVars

\* the records of a list of object ids, by value
Values(ids) == [k \in 1..Len(ids) |-> heap[ids[k]]]

\* clean_and_deduplicate_strings(cleaned): the pass applied to its own output
CleanAgain ==
    /\ pc = "returned"
    /\ call = 1
    /\ first' = Values(cleaned)
    /\ strings_data' = cleaned
    /\ seen' = <<>>
    /\ cleaned' = <<>>
    /\ i' = 1
    /\ call' = 2
    /\ pc' = "clean"
    /\ UNCHANGED <<script, sheets_data, heap, heap0>>
    /\ UNCHANGED classVars
    /\ UNCHANGED bookVars
    /\ UNCHANGED sheets_order
    /\ decided' = <<>>
    /\ UNCHANGED envVars

\* clean_and_deduplicate_strings(strings_data) once more on the list the
\* first call got, whose first-seen records that call changed in place
CleanSameInput ==
    /\ pc = "returned"
    /\ call = 1
    /\ first' = Values(cleaned)
    /\ strings_data' = Ids(Len(heap))
    /\ seen' = <<>>
    /\ cleaned' = <<>>
    /\ i' = 1
    /\ call' = 3
    /\ pc' = "clean"
    /\ decided' = <<>>
    /\ UNCHANGED <<script, sheets_data, sheets_order, heap, heap0>>
    /\ UNCHANGED classVars
    /\ UNCHANGED bookVars
    /\ UNCHANGED envVars

(***************************************************************************)
(* organize_by_sheets, one loop iteration per step.                        *)
(***************************************************************************)
category_order ==
    <<"Authentication", "Profile & Settings", "Race Management", "Active Races",
      "Social Features", "Leaderboard & Stats", "Home & Navigation",
      "Dialogs & Popups", "Subscription/Premium", "Errors & Validation",
      "Admin Dashboard", "Common/Shared">>

\* a row that leaves the notes out
RowNoNotes(r) ==
    [EnglishText |-> r.text, ScreenContext |-> r.screenContext, Notes |-> ""]

\* the row appended for a record
Row(r) ==
    [EnglishText |-> r.text, ScreenContext |-> r.screenContext, Notes |-> r.notes]

\* sheets_data = {}; for category in category_order: sheets_data[category] = []
OrganizeBegin ==
    /\ pc = "organize_call"
    /\ sheets_data' = [c \in Range(category_order) |-> <<>>]
    /\ i' = 1
    /\ pc' = "organize"
    /\ UNCHANGED <<script, heap, heap0, strings_data, seen, cleaned, call, first>>
    /\ UNCHANGED classVars
    /\ UNCHANGED bookVars
    /\ sheets_order' = category_order
    /\ UNCHANGED decided
    /\ UNCHANGED envVars

\* sheets_data[category].append({...}) where the dict has the key
OrganizeAppend ==
    /\ pc = "organize"
    /\ i <= Len(strings_data)
    /\ string_obj.category \in DOMAIN sheets_data
    /\ sheets_data' =
           [sheets_data EXCEPT ![string_obj.category] = Append(@, Row(string_obj))]
    /\ i' = i + 1
    /\ UNCHANGED <<script, pc, heap, heap0, strings_data, seen, cleaned, call, first>>
    /\ UNCHANGED classVars
    /\ UNCHANGED bookVars
    /\ UNCHANGED sheets_order
    /\ UNCHANGED decided
    /\ UNCHANGED envVars

\* a grouping that passes over a record of an unknown category
OrganizeSkipUnknown ==
    /\ pc = "organize"
    /\ i <= Len(strings_data)
    /\ string_obj.category \notin DOMAIN sheets_data
    /\ i' = i + 1
    /\ UNCHANGED <<script, pc, sheets_data, heap, heap0, strings_data, seen, cleaned,
                   call, first>>
    /\ UNCHANGED classVars
    /\ UNCHANGED bookVars
    /\ UNCHANGED sheets_order
    /\ UNCHANGED decided
    /\ UNCHANGED envVars

\* sheets_data[category] where the plain dict lacks the key: KeyError, which
\* neither organize_by_sheets nor main catches
OrganizeKeyError ==
    /\ pc = "organize"
    /\ i <= Len(strings_data)
    /\ string_obj.category \notin DOMAIN sheets_data
    /\ pc' = "KeyError"
    /\ UNCHANGED <<script, sheets_data>>
    /\ UNCHANGED cleanVars
    /\ UNCHANGED classVars
    /\ UNCHANGED bookVars
    /\ UNCHANGED sheets_order
    /\ UNCHANGED envVars

\* return sheets_data
OrganizeReturn ==
    /\ pc = "organize"
    /\ i > Len(strings_data)
    /\ pc' = "organized"
    /\ UNCHANGED <<script, sheets_data>>
    /\ UNCHANGED cleanVars
    /\ UNCHANGED classVars
    /\ UNCHANGED bookVars
    /\ UNCHANGED sheets_order
    /\ UNCHANGED envVars

(***************************************************************************)
(* main of generate_excel_simple.py and generate_excel.py up to the        *)
(* grouping: load, clean, organize, update the metadata.                   *)
(***************************************************************************)
\* the characters of a category name
Chars(c) ==
    IF c = "Authentication" THEN
        <<"A","u","t","h","e","n","t","i","c","a","t","i","o","n">>
    ELSE
    IF c = "Profile & Settings" THEN
        <<"P","r","o","f","i","l","e"," ","&"," ","S","e","t","t","i","n","g","s">>
    ELSE
    IF c = "Race Management" THEN
        <<"R","a","c","e"," ","M","a","n","a","g","e","m","e","n","t">>
    ELSE
    IF c = "Active Races" THEN
        <<"A","c","t","i","v","e"," ","R","a","c","e","s">>
    ELSE
    IF c = "Social Features" THEN
        <<"S","o","c","i","a","l"," ","F","e","a","t","u","r","e","s">>
    ELSE
    IF c = "Leaderboard & Stats" THEN
        <<"L","e","a","d","e","r","b","o","a","r","d"," ","&"," ","S","t","a","t","s">>
    ELSE
    IF c = "Home & Navigation" THEN
        <<"H","o","m","e"," ","&"," ","N","a","v","i","g","a","t","i","o","n">>
    ELSE
    IF c = "Dialogs & Popups" THEN
        <<"D","i","a","l","o","g","s"," ","&"," ","P","o","p","u","p","s">>
    ELSE
    IF c = "Subscription/Premium" THEN
        <<"S","u","b","s","c","r","i","p","t","i","o","n","/","P","r","e","m","i","u","m">>
    ELSE
    IF c = "Errors & Validation" THEN
        <<"E","r","r","o","r","s"," ","&"," ","V","a","l","i","d","a","t","i","o","n">>
    ELSE
    IF c = "Admin Dashboard" THEN
        <<"A","d","m","i","n"," ","D","a","s","h","b","o","a","r","d">>
    ELSE
    IF c = "Common/Shared" THEN
        <<"C","o","m","m","o","n","/","S","h","a","r","e","d">>
    ELSE <<>>

Digits == <<"0","1","2","3","4","5","6","7","8","9">>

\* str(n) for 0 <= n < 100
Str(n) ==
    IF n < 10 THEN <<Digits[n + 1]>> ELSE <<Digits[(n \div 10) + 1], Digits[(n % 10) + 1]>>

\* f'{n:02d}' for 0 <= n < 100
TwoDigits(n) == <<Digits[(n \div 10) + 1], Digits[(n % 10) + 1]>>

\* s.replace(a, b) for single characters a, b
Replace(s, a, b) == [k \in 1..Len(s) |-> IF s[k] = a THEN b ELSE s[k]]

\* s[:n]
Take(s, n) == SubSeq(s, 1, IF Len(s) < n THEN Len(s) ELSE n)

\* data = load_strings_data() where the file holds a JSON document
MainLoad ==
    /\ pc = "main"
    /\ json_file.state = "ok"
    /\ heap' = json_file.strings
    /\ heap0' = json_file.strings
    /\ strings_data' = Ids(Len(json_file.strings))
    /\ metadata' = json_file.metadata
    /\ i' = 1
    /\ pc' = "clean"
    /\ UNCHANGED <<script, seen, cleaned, call, first, decided, sheets_data, sheets_order>>
    /\ UNCHANGED <<json_file, disk, dir_exists, dir_made, file_count, failed, outcome>>
    /\ UNCHANGED classVars
    /\ UNCHANGED bookVars

\* a load failure that is swallowed: the run goes on with an empty document
MainLoadFailContinues ==
    /\ pc = "main"
    /\ json_file.state # "ok"
    /\ heap' = <<>>
    /\ heap0' = <<>>
    /\ strings_data' = <<>>
    /\ metadata' = [extractedAt |-> <<>>, totalStrings |-> 0, filesProcessed |-> 0]
    /\ i' = 1
    /\ failed' = failed \cup {"load"}
    /\ pc' = "clean"
    /\ UNCHANGED <<script, seen, cleaned, call, first, decided, sheets_data, sheets_order>>
    /\ UNCHANGED <<json_file, disk, dir_exists, dir_made, file_count, outcome>>
    /\ UNCHANGED classVars
    /\ UNCHANGED bookVars

\* an exception that ends the run with status 0
AbortQuietly(step) ==
    /\ failed' = failed \cup {step}
    /\ outcome' = 0
    /\ pc' = "exited"

\* an uncaught exception: the interpreter prints the traceback and exits with status 1
Abort(step) ==
    /\ failed' = failed \cup {step}
    /\ outcome' = 1
    /\ pc' = "exited"

\* load_strings_data raises: open() on a missing file, json.load on a malformed one
MainLoadFail ==
    /\ pc = "main"
    /\ json_file.state # "ok"
    /\ Abort("load")
    /\ UNCHANGED <<script, sheets_data, sheets_order>>
    /\ UNCHANGED cleanVars
    /\ UNCHANGED <<json_file, metadata, disk, dir_exists, dir_made, file_count>>
    /\ UNCHANGED classVars
    /\ UNCHANGED bookVars

\* sheets_data = organize_by_sheets(cleaned_strings)
MainOrganize ==
    /\ pc = "returned"
    /\ strings_data' = cleaned
    /\ i' = 1
    /\ pc' = "organize_call"
    /\ UNCHANGED <<script, heap, heap0, seen, cleaned, call, first, decided, sheets_data,
                   sheets_order>>
    /\ UNCHANGED envVars
    /\ UNCHANGED classVars
    /\ UNCHANGED bookVars

\* the KeyError of organize_by_sheets leaves main uncaught
MainKeyError ==
    /\ pc = "KeyError"
    /\ Abort("organize")
    /\ UNCHANGED <<script, sheets_data, sheets_order>>
    /\ UNCHANGED cleanVars
    /\ UNCHANGED <<json_file, metadata, disk, dir_exists, dir_made, file_count>>
    /\ UNCHANGED classVars
    /\ UNCHANGED bookVars

\* a main that reports the number of records loaded
MainSetTotalLoaded ==
    /\ pc = "organized"
    /\ metadata' = [metadata EXCEPT !.totalStrings = Len(heap0)]
    /\ pc' = "create"
    /\ UNCHANGED <<script, sheets_data, sheets_order>>
    /\ UNCHANGED cleanVars
    /\ UNCHANGED <<json_file, disk, dir_exists, dir_made, file_count, failed, outcome>>
    /\ UNCHANGED classVars
    /\ UNCHANGED bookVars

\* data['metadata']['totalStrings'] = len(cleaned_strings)
MainSetTotal ==
    /\ pc = "organized"
    /\ metadata' = [metadata EXCEPT !.totalStrings = Len(cleaned)]
    /\ pc' = "create"
    /\ UNCHANGED <<script, sheets_data, sheets_order>>
    /\ UNCHANGED cleanVars
    /\ UNCHANGED <<json_file, disk, dir_exists, dir_made, file_count, failed, outcome>>
    /\ UNCHANGED classVars
    /\ UNCHANGED bookVars

(***************************************************************************)
(* create_csv_files of generate_excel_simple.py.                           *)
(***************************************************************************)
INSTRUCTIONS_txt == <<"0","0","_","I","N","S","T","R","U","C","T","I","O","N","S",".","t","x","t">>

SUMMARY_csv == <<"0","1","_","S","U","M","M","A","R","Y",".","c","s","v">>

\* f'{file_count:02d}_{category.replace("/", "-").replace(" ", "_")}.csv'
CategoryFileName(n, category) ==
    TwoDigits(n) \o <<"_">> \o Replace(Replace(Chars(category), "/", "-"), " ", "_")
        \o <<".","c","s","v">>

\* the categories of the dict in insertion order, those with an empty list left out
NonEmptyKeys ==
    LET NonEmpty(c) == Len(sheets_data[c]) > 0
    IN  SelectSeq(sheets_order, NonEmpty)

\* the text create_instructions_file writes: the two fields it takes from the metadata
InstructionsText ==
    [ExtractedDate |-> Take(metadata.extractedAt, 10),
     TotalStrings |-> Str(metadata.totalStrings)]

\* a progress row that reports the total of the whole report
ProgressRowOfTotal(c) == <<Chars(c), Str(metadata.totalStrings), Str(0), <<"0","%">>>>

\* rows.append([category, len(strings), 0, '0%']) as csv.writer renders it
ProgressRow(c) == <<Chars(c), Str(Len(sheets_data[c])), Str(0), <<"0","%">>>>

\* rows.append([category, len(strings)]) as csv.writer renders it
CountRow(c) == <<Chars(c), Str(Len(sheets_data[c]))>>

\* the rows create_summary_file writes, as csv.writer renders them
SummaryFileRows ==
    << <<<<"S","t","e","p","z","S","y","n","c"," ","T","r","a","n","s","l","a","t","i","o","n"," ","S","u","m","m","a","r","y">>, <<>> >>,
       << <<>>, <<>> >>,
       <<<<"E","x","t","r","a","c","t","i","o","n"," ","D","a","t","e",":">>, Take(metadata.extractedAt, 10)>>,
       <<<<"T","o","t","a","l"," ","S","t","r","i","n","g","s"," ","F","o","u","n","d",":">>, Str(metadata.totalStrings)>>,
       <<<<"F","i","l","e","s"," ","P","r","o","c","e","s","s","e","d",":">>, Str(metadata.filesProcessed)>>,
       << <<>>, <<>> >>,
       <<<<"S","t","r","i","n","g","s"," ","b","y"," ","C","a","t","e","g","o","r","y",":">>, <<"C","o","u","n","t">>>> >>
    \o [k \in 1..Len(NonEmptyKeys) |-> CountRow(NonEmptyKeys[k])]
    \o << << <<>>, <<>> >>,
          <<<<"T","r","a","n","s","l","a","t","i","o","n"," ","P","r","o","g","r","e","s","s"," ","T","r","a","c","k","e","r",":">>, <<>> >>,
          <<<<"(","U","p","d","a","t","e"," ","t","h","i","s"," ","a","s"," ","y","o","u"," ","c","o","m","p","l","e","t","e"," ","t","r","a","n","s","l","a","t","i","o","n",")">>, <<>> >>,
          << <<>>, <<>> >>,
          <<<<"C","a","t","e","g","o","r","y">>, <<"T","o","t","a","l"," ","S","t","r","i","n","g","s">>, <<"T","r","a","n","s","l","a","t","e","d">>, <<"P","r","o","g","r","e","s","s"," ","%">>>> >>
    \o [k \in 1..Len(NonEmptyKeys) |-> ProgressRow(NonEmptyKeys[k])]

\* writer.writeheader(); writer.writerows(strings)
CategoryFileRows(c) ==
    << <<<<"E","n","g","l","i","s","h"," ","T","e","x","t">>, <<"S","c","r","e","e","n","/","C","o","n","t","e","x","t">>, <<"N","o","t","e","s">>>> >>
    \o [k \in 1..Len(sheets_data[c]) |->
            <<sheets_data[c][k].EnglishText, sheets_data[c][k].ScreenContext,
              sheets_data[c][k].Notes>>]

\* if not os.path.exists(output_dir): os.makedirs(output_dir)
CsvMakeDir ==
    /\ pc = "create"
    /\ script = "simple"
    /\ dir_exists' = TRUE
    /\ dir_made' = ~dir_exists
    /\ pc' = "instructions"
    /\ UNCHANGED <<script, sheets_data, sheets_order>>
    /\ UNCHANGED cleanVars
    /\ UNCHANGED <<json_file, metadata, disk, file_count, failed, outcome>>
    /\ UNCHANGED classVars
    /\ UNCHANGED bookVars

\* create_instructions_file(output_dir, metadata)
CsvInstructions ==
    /\ pc = "instructions"
    /\ disk' = (INSTRUCTIONS_txt :> InstructionsText) @@ disk
    /\ pc' = "summary"
    /\ UNCHANGED <<script, sheets_data, sheets_order>>
    /\ UNCHANGED cleanVars
    /\ UNCHANGED <<json_file, metadata, dir_exists, dir_made, file_count, failed, outcome>>
    /\ UNCHANGED classVars
    /\ UNCHANGED bookVars

\* create_summary_file(output_dir, sheets_data, metadata); file_count = 0
CsvSummary ==
    /\ pc = "summary"
    /\ disk' = (SUMMARY_csv :> SummaryFileRows) @@ disk
    /\ file_count' = 0
    /\ i' = 1
    /\ pc' = "categories"
    /\ UNCHANGED <<script, sheets_data, sheets_order>>
    /\ UNCHANGED <<heap, heap0, strings_data, seen, cleaned, call, first, decided>>
    /\ UNCHANGED <<json_file, metadata, dir_exists, dir_made, failed, outcome>>
    /\ UNCHANGED classVars
    /\ UNCHANGED bookVars

\* a loop that writes a file for every category, empty or not
CsvCategoryAlways ==
    /\ pc = "categories"
    /\ i <= Len(sheets_order)
    /\ disk' = (CategoryFileName(file_count, sheets_order[i])
                   :> CategoryFileRows(sheets_order[i])) @@ disk
    /\ file_count' = file_count + 1
    /\ i' = i + 1
    /\ UNCHANGED <<script, pc, sheets_data, sheets_order>>
    /\ UNCHANGED <<heap, heap0, strings_data, seen, cleaned, call, first, decided>>
    /\ UNCHANGED <<json_file, metadata, dir_exists, dir_made, failed, outcome>>
    /\ UNCHANGED classVars
    /\ UNCHANGED bookVars

\* if strings: write the category file; file_count += 1
CsvCategoryWrite ==
    /\ pc = "categories"
    /\ i <= Len(sheets_order)
    /\ Len(sheets_data[sheets_order[i]]) > 0
    /\ disk' = (CategoryFileName(file_count, sheets_order[i])
                   :> CategoryFileRows(sheets_order[i])) @@ disk
    /\ file_count' = file_count + 1
    /\ i' = i + 1
    /\ UNCHANGED <<script, pc, sheets_data, sheets_order>>
    /\ UNCHANGED <<heap, heap0, strings_data, seen, cleaned, call, first, decided>>
    /\ UNCHANGED <<json_file, metadata, dir_exists, dir_made, failed, outcome>>
    /\ UNCHANGED classVars
    /\ UNCHANGED bookVars

\* a category whose list is empty gets no file
CsvCategorySkip ==
    /\ pc = "categories"
    /\ i <= Len(sheets_order)
    /\ Len(sheets_data[sheets_order[i]]) = 0
    /\ i' = i + 1
    /\ UNCHANGED <<script, pc, sheets_data, sheets_order>>
    /\ UNCHANGED <<heap, heap0, strings_data, seen, cleaned, call, first, decided>>
    /\ UNCHANGED envVars
    /\ UNCHANGED classVars
    /\ UNCHANGED bookVars

\* return output_dir
CsvReturn ==
    /\ pc = "categories"
    /\ i > Len(sheets_order)
    /\ pc' = "created"
    /\ UNCHANGED <<script, sheets_data, sheets_order>>
    /\ UNCHANGED cleanVars
    /\ UNCHANGED envVars
    /\ UNCHANGED classVars
    /\ UNCHANGED bookVars

\* os.makedirs or an open(..., 'w') raises OSError
CsvRaise ==
    /\ \/ pc = "create" /\ script = "simple" /\ ~dir_exists
       \/ pc \in {"instructions", "summary"}
       \/ /\ pc = "categories"
          /\ i <= Len(sheets_order)
          /\ Len(sheets_data[sheets_order[i]]) > 0
    /\ Abort("write")
    /\ UNCHANGED <<script, sheets_data, sheets_order>>
    /\ UNCHANGED cleanVars
    /\ UNCHANGED <<json_file, metadata, disk, dir_exists, dir_made, file_count>>
    /\ UNCHANGED classVars
    /\ UNCHANGED bookVars

(***************************************************************************)
(* create_excel_workbook of generate_excel.py.                             *)
(***************************************************************************)
output_file == <<"S","t","e","p","z","S","y","n","c","_","T","r","a","n","s","l","a","t","i","o","n","_","M","a","s","t","e","r",".","x","l","s","x">>

\* the rows of the Instructions sheet that depend on the metadata
InstructionsRows ==
    << <<<<"E","x","t","r","a","c","t","e","d"," ","D","a","t","e",":">>, Take(metadata.extractedAt, 10)>>,
       <<<<"T","o","t","a","l"," ","S","t","r","i","n","g","s",":">>, metadata.totalStrings>> >>

\* the rows create_summary_sheet puts in the data frame
SummarySheetRows ==
    << <<<<"S","t","e","p","z","S","y","n","c"," ","T","r","a","n","s","l","a","t","i","o","n"," ","S","u","m","m","a","r","y">>, <<>> >>,
       << <<>>, <<>> >>,
       <<<<"E","x","t","r","a","c","t","i","o","n"," ","D","a","t","e",":">>, Take(metadata.extractedAt, 10)>>,
       <<<<"T","o","t","a","l"," ","S","t","r","i","n","g","s"," ","F","o","u","n","d",":">>, metadata.totalStrings>>,
       <<<<"F","i","l","e","s"," ","P","r","o","c","e","s","s","e","d",":">>, metadata.filesProcessed>>,
       << <<>>, <<>> >>,
       <<<<"S","t","r","i","n","g","s"," ","b","y"," ","C","a","t","e","g","o","r","y",":">>, <<"C","o","u","n","t">>>> >>
    \o [k \in 1..Len(sheets_order) |->
            <<Chars(sheets_order[k]), Len(sheets_data[sheets_order[k]])>>]
    \o << << <<>>, <<>> >>,
          <<<<"T","r","a","n","s","l","a","t","i","o","n"," ","P","r","o","g","r","e","s","s",":">>, <<>> >>,
          <<<<"T","h","i","s"," ","s","e","c","t","i","o","n"," ","c","a","n"," ","b","e"," ","u","p","d","a","t","e","d"," ","a","s"," ","t","r","a","n","s","l","a","t","i","o","n"," ","p","r","o","g","r","e","s","s","e","s">>, <<>> >>,
          << <<>>, <<>> >>,
          <<<<"C","a","t","e","g","o","r","y">>, <<"T","o","t","a","l">>, <<"T","r","a","n","s","l","a","t","e","d">>, <<"P","r","o","g","r","e","s","s"," ","%">>>> >>
    \o [k \in 1..Len(sheets_order) |->
            <<Chars(sheets_order[k]), Len(sheets_data[sheets_order[k]]), 0, <<"0","%">>>>]

\* with pd.ExcelWriter(...) as writer: create_instructions_sheet(writer, metadata)
XlsInstructions ==
    /\ pc = "create"
    /\ script = "full"
    /\ writer' = <<[name |-> <<"I","n","s","t","r","u","c","t","i","o","n","s">>, rows |-> InstructionsRows]>>
    /\ pc' = "summary_sheet"
    /\ UNCHANGED <<script, sheets_data, sheets_order>>
    /\ UNCHANGED cleanVars
    /\ UNCHANGED envVars
    /\ UNCHANGED classVars
    /\ UNCHANGED <<workbook, wb, HAS_XLSXWRITER, HAS_OPENPYXL, invoked, completed, printed,
                   counts>>

\* create_summary_sheet(writer, sheets_data, metadata)
XlsSummary ==
    /\ pc = "summary_sheet"
    /\ writer' = Append(writer, [name |-> <<"S","u","m","m","a","r","y">>, rows |-> SummarySheetRows])
    /\ i' = 1
    /\ pc' = "sheets"
    /\ UNCHANGED <<script, sheets_data, sheets_order>>
    /\ UNCHANGED <<heap, heap0, strings_data, seen, cleaned, call, first, decided>>
    /\ UNCHANGED envVars
    /\ UNCHANGED classVars
    /\ UNCHANGED <<workbook, wb, HAS_XLSXWRITER, HAS_OPENPYXL, invoked, completed, printed,
                   counts>>

\* if strings: df.to_excel(writer, sheet_name=sheet_name[:31], index=False)
XlsCategorySheet ==
    /\ pc = "sheets"
    /\ i <= Len(sheets_order)
    /\ Len(sheets_data[sheets_order[i]]) > 0
    /\ writer' = Append(writer, [name |-> Take(Chars(sheets_order[i]), SheetNameLimit),
                                 rows |-> CategoryFileRows(sheets_order[i])])
    /\ i' = i + 1
    /\ UNCHANGED <<script, pc, sheets_data, sheets_order>>
    /\ UNCHANGED <<heap, heap0, strings_data, seen, cleaned, call, first, decided>>
    /\ UNCHANGED envVars
    /\ UNCHANGED classVars
    /\ UNCHANGED <<workbook, wb, HAS_XLSXWRITER, HAS_OPENPYXL, invoked, completed, printed,
                   counts>>

\* a category whose list is empty gets no sheet
XlsCategorySkip ==
    /\ pc = "sheets"
    /\ i <= Len(sheets_order)
    /\ Len(sheets_data[sheets_order[i]]) = 0
    /\ i' = i + 1
    /\ UNCHANGED <<script, pc, sheets_data, sheets_order>>
    /\ UNCHANGED <<heap, heap0, strings_data, seen, cleaned, call, first, decided>>
    /\ UNCHANGED envVars
    /\ UNCHANGED classVars
    /\ UNCHANGED bookVars

\* the with block ends: the writer saves the workbook
XlsSave ==
    /\ pc = "sheets"
    /\ i > Len(sheets_order)
    /\ disk' = (output_file :> writer) @@ disk
    /\ pc' = "format"
    /\ UNCHANGED <<script, sheets_data, sheets_order>>
    /\ UNCHANGED cleanVars
    /\ UNCHANGED <<json_file, metadata, dir_exists, dir_made, file_count, failed, outcome>>
    /\ UNCHANGED classVars
    /\ UNCHANGED bookVars

\* apply_formatting: load the workbook, set styles and widths, save it: no cell value changes
XlsFormat ==
    /\ pc = "format"
    /\ output_file \in DOMAIN disk
    /\ pc' = "created"
    /\ UNCHANGED <<script, sheets_data, sheets_order>>
    /\ UNCHANGED cleanVars
    /\ UNCHANGED envVars
    /\ UNCHANGED classVars
    /\ UNCHANGED bookVars

\* a step of create_excel_workbook raises; inside the with block the writer may
\* still save the sheets it has
XlsRaise ==
    /\ \/ pc = "create" /\ script = "full"
       \/ pc \in {"summary_sheet", "format"}
       \/ pc = "sheets"
    /\ \/ UNCHANGED disk
       \/ /\ pc = "sheets"
          /\ disk' = (output_file :> writer) @@ disk
    /\ Abort("write")
    /\ UNCHANGED <<script, sheets_data, sheets_order>>
    /\ UNCHANGED cleanVars
    /\ UNCHANGED <<json_file, metadata, dir_exists, dir_made, file_count>>
    /\ UNCHANGED classVars
    /\ UNCHANGED bookVars

\* main returns: the interpreter exits with status 0
MainExit ==
    /\ pc = "created"
    /\ outcome' = 0
    /\ pc' = "exited"
    /\ UNCHANGED <<script, sheets_data, sheets_order>>
    /\ UNCHANGED cleanVars
    /\ UNCHANGED <<json_file, metadata, disk, dir_exists, dir_made, file_count, failed>>
    /\ UNCHANGED classVars
    /\ UNCHANGED bookVars

(***************************************************************************)
(* csv_to_excel.py: the two writers.                                       *)
(***************************************************************************)
csv_dir == <<"t","r","a","n","s","l","a","t","i","o","n","_","s","h","e","e","t","s">>

\* the uppercase letter of each lowercase letter
UpperOf ==
    [c \in LowerSet |->
        UpperLetters[CHOOSE k \in DOMAIN LowerLetters : LowerLetters[k] = c]]

\* s.upper()
Upper(s) == [k \in 1..Len(s) |-> IF IsLowerChar(s[k]) THEN UpperOf[s[k]] ELSE s[k]]

\* s.endswith(t)
EndsWith(s, t) == Len(s) >= Len(t) /\ SubSeq(s, Len(s) - Len(t) + 1, Len(s)) = t

\* s[n:]
Drop(s, n) == SubSeq(s, n + 1, Len(s))

\* s.replace(t, '') for a non-empty t
RECURSIVE Remove(_, _)
Remove(s, t) ==
    IF Len(s) < Len(t) THEN s
    ELSE IF SubSeq(s, 1, Len(t)) = t THEN Remove(Drop(s, Len(t)), t)
    ELSE <<s[1]>> \o Remove(Drop(s, 1), t)

\* s.isdigit(): non-empty and every character a digit
IsDigit(s) == Len(s) > 0 /\ \A k \in 1..Len(s) : s[k] \in Range(Digits)

\* the characters of file names and cells, in code point order
CodePoints ==
    <<" ", "%", "-", ".", ":">> \o Digits \o UpperLetters \o <<"_">> \o LowerLetters

\* ord(c), up to an order-preserving renumbering
Ord == [c \in Range(CodePoints) |-> CHOOSE k \in DOMAIN CodePoints : CodePoints[k] = c]

\* a < b for str
RECURSIVE StrLess(_, _)
StrLess(a, b) ==
    IF Len(b) = 0 THEN FALSE
    ELSE IF Len(a) = 0 THEN TRUE
    ELSE IF a[1] = b[1] THEN StrLess(Drop(a, 1), Drop(b, 1))
    ELSE Ord[a[1]] < Ord[b[1]]

\* sorted(S) for a set of str
RECURSIVE Sorted(_)
Sorted(S) ==
    IF S = {} THEN <<>>
    ELSE LET least == CHOOSE a \in S : \A b \in S \ {a} : StrLess(a, b)
         IN  <<least>> \o Sorted(S \ {least})

\* sorted([f for f in os.listdir(csv_dir) if f.endswith('.csv')])
csv_files == Sorted({f \in DOMAIN disk : EndsWith(f, <<".","c","s","v">>)})

\* the sheet name both writers derive from a file name, cut after the given length
SheetNameCut(csv_file, limit) ==
    LET sheet_name == Replace(Remove(csv_file, <<".","c","s","v">>), "_", " ")
        stripped == IF IsDigit(Remove(Take(sheet_name, 2), << " " >>))
                    THEN Drop(sheet_name, 3) ELSE sheet_name
    IN  Take(stripped, limit)

\* a sheet name that keeps the number prefix of the file name
SheetNameWithNumber(csv_file) ==
    Take(Replace(Remove(csv_file, <<".","c","s","v">>), "_", " "), SheetNameLimit)

\* the sheet name both writers derive from a file name
SheetName(csv_file) == SheetNameCut(csv_file, SheetNameLimit)

\* 'SUMMARY' in csv_file.upper()
IsSummary(csv_file) == Contains(Upper(csv_file), <<"S","U","M","M","A","R","Y">>)

\* the (row_num, col_num) pairs of enumerate(rows) / enumerate(row_data), from the given start
Enumerated(rows, start) ==
    {<<r - 1 + start, c - 1 + start>> : r \in 1..Len(rows), c \in 1..MaxCells}
        \cap UNION {{<<r - 1 + start, c - 1 + start>> : c \in 1..Len(rows[r])} : r \in 1..Len(rows)}

\* row_data[0] of the title row raises IndexError when the row has no cell
TitleIndexError(csv_file) ==
    IsSummary(csv_file) /\ Len(disk[csv_file]) > 0 /\ Len(disk[csv_file][1]) = 0

\* the cells worksheet.write is called for in the summary branch: the first
\* two of the title row and of a section-header row, all of any other row
XlsxSummaryWritten(rows) ==
    {p \in Enumerated(rows, 0) :
        LET row_data == rows[p[1] + 1]
        IN  \/ p[2] <= 1
            \/ /\ p[1] # 0
               /\ ~(row_data[1] # <<>> /\ EndsWith(row_data[1], <<":">>))}

\* the cells of the worksheet create_excel_with_xlsxwriter fills for a file:
\* (row_num, col_num) from 0 -> the value written
XlsxCells(csv_file) ==
    LET rows == disk[csv_file]
        written == IF IsSummary(csv_file) THEN XlsxSummaryWritten(rows)
                   ELSE Enumerated(rows, 0)
    IN  [p \in written |-> rows[p[1] + 1][p[2] + 1]]

\* the cells of the worksheet create_excel_with_openpyxl fills for a file:
\* (row, column) from 1 -> the value written
OpenpyxlCells(csv_file) ==
    LET rows == disk[csv_file]
    IN  [p \in Enumerated(rows, 1) |-> rows[p[1]][p[2]]]

(***************************************************************************)
(* csv_to_excel.py: main and the steps of the writers.                     *)
(***************************************************************************)
\* the variables no step of csv_to_excel.py touches
convertFrame == <<script, text, verdict, heap, heap0, strings_data, seen, cleaned, call,
                  first, decided, sheets_data, sheets_order, json_file, metadata,
                  dir_exists, dir_made, file_count, writer, HAS_XLSXWRITER, HAS_OPENPYXL,
                  counts>>

\* a main that goes on to the writers although the directory is missing
ConvertNoDirIgnored ==
    /\ pc = "convert"
    /\ ~dir_exists
    /\ invoked' = Append(invoked, "xlsxwriter")
    /\ workbook' = <<>>
    /\ i' = 1
    /\ pc' = "xlsxwriter"
    /\ UNCHANGED <<disk, failed, outcome, wb, completed>>
    /\ UNCHANGED convertFrame
    /\ UNCHANGED printed

\* if not os.path.exists(csv_dir): return 1
ConvertNoDir ==
    /\ pc = "convert"
    /\ ~dir_exists
    /\ outcome' = 1
    /\ pc' = "exited"
    /\ UNCHANGED <<i, disk, failed, workbook, wb, invoked, completed>>
    /\ printed' = printed \cup {"Directory translation_sheets not found"}
    /\ UNCHANGED convertFrame

\* if HAS_XLSXWRITER: try: create_excel_with_xlsxwriter(csv_dir, output_file)
ConvertCallXlsx ==
    /\ pc = "convert"
    /\ dir_exists
    /\ HAS_XLSXWRITER
    /\ invoked' = Append(invoked, "xlsxwriter")
    /\ workbook' = <<>>
    /\ i' = 1
    /\ pc' = "xlsxwriter"
    /\ UNCHANGED <<disk, failed, outcome, wb, completed>>
    /\ UNCHANGED convertFrame
    /\ UNCHANGED printed

\* one iteration of the loop over csv_files: add_worksheet and the writes
XlsxSheet ==
    /\ pc = "xlsxwriter"
    /\ i <= Len(csv_files)
    /\ ~TitleIndexError(csv_files[i])
    /\ workbook' = Append(workbook, [name |-> SheetName(csv_files[i]),
                                     cells |-> XlsxCells(csv_files[i])])
    /\ i' = i + 1
    /\ UNCHANGED <<pc, disk, failed, outcome, wb, invoked, completed>>
    /\ UNCHANGED convertFrame
    /\ UNCHANGED printed

\* workbook.close(); return True
XlsxClose ==
    /\ pc = "xlsxwriter"
    /\ i > Len(csv_files)
    /\ disk' = (output_file :> workbook) @@ disk
    /\ completed' = completed \cup {"xlsxwriter"}
    /\ pc' = "xlsx_returned"
    /\ UNCHANGED <<i, failed, outcome, workbook, wb, invoked>>
    /\ UNCHANGED convertFrame
    /\ UNCHANGED printed

\* the title row of the summary file has no cell: row_data[0] raises IndexError
XlsxIndexError ==
    /\ pc = "xlsxwriter"
    /\ i <= Len(csv_files)
    /\ TitleIndexError(csv_files[i])
    /\ failed' = failed \cup {"xlsxwriter"}
    /\ pc' = "xlsx_raised"
    /\ UNCHANGED <<i, disk, outcome, workbook, wb, invoked, completed>>
    /\ printed' = printed \cup {"Error with xlsxwriter"}
    /\ UNCHANGED convertFrame

\* a step of the xlsxwriter writer raises: reading a file, closing the workbook
XlsxRaise ==
    /\ pc = "xlsxwriter"
    /\ failed' = failed \cup {"xlsxwriter"}
    /\ pc' = "xlsx_raised"
    /\ UNCHANGED <<i, disk, outcome, workbook, wb, invoked, completed>>
    /\ printed' = printed \cup {"Error with xlsxwriter"}
    /\ UNCHANGED convertFrame

\* a main that calls the openpyxl writer whatever the first one did
ConvertCallOpenpyxlAlways ==
    /\ \/ pc = "convert" /\ dir_exists /\ ~HAS_XLSXWRITER
       \/ pc \in {"xlsx_raised", "xlsx_returned"}
    /\ HAS_OPENPYXL
    /\ invoked' = Append(invoked, "openpyxl")
    /\ wb' = <<>>
    /\ i' = 1
    /\ pc' = "openpyxl"
    /\ UNCHANGED <<disk, failed, outcome, workbook, completed>>
    /\ UNCHANGED convertFrame
    /\ UNCHANGED printed

\* if HAS_OPENPYXL: try: create_excel_with_openpyxl(csv_dir, output_file),
\* reached when xlsxwriter is not installed or its writer raised
ConvertCallOpenpyxl ==
    /\ \/ pc = "convert" /\ dir_exists /\ ~HAS_XLSXWRITER
       \/ pc = "xlsx_raised"
    /\ HAS_OPENPYXL
    /\ invoked' = Append(invoked, "openpyxl")
    /\ wb' = <<>>
    /\ i' = 1
    /\ pc' = "openpyxl"
    /\ UNCHANGED <<disk, failed, outcome, workbook, completed>>
    /\ UNCHANGED convertFrame
    /\ UNCHANGED printed

\* one iteration of the loop over csv_files: create_sheet and the cells
OpenpyxlSheet ==
    /\ pc = "openpyxl"
    /\ i <= Len(csv_files)
    /\ wb' = Append(wb, [name |-> SheetName(csv_files[i]),
                         cells |-> OpenpyxlCells(csv_files[i])])
    /\ i' = i + 1
    /\ UNCHANGED <<pc, disk, failed, outcome, workbook, invoked, completed>>
    /\ UNCHANGED convertFrame
    /\ UNCHANGED printed

\* wb.save(output_file); return True
OpenpyxlSave ==
    /\ pc = "openpyxl"
    /\ i > Len(csv_files)
    /\ disk' = (output_file :> wb) @@ disk
    /\ completed' = completed \cup {"openpyxl"}
    /\ pc' = "openpyxl_returned"
    /\ UNCHANGED <<i, failed, outcome, workbook, wb, invoked>>
    /\ UNCHANGED convertFrame
    /\ UNCHANGED printed

\* a step of the openpyxl writer raises: reading a file, saving the workbook
OpenpyxlRaise ==
    /\ pc = "openpyxl"
    /\ failed' = failed \cup {"openpyxl"}
    /\ pc' = "openpyxl_raised"
    /\ UNCHANGED <<i, disk, outcome, workbook, wb, invoked, completed>>
    /\ printed' = printed \cup {"Error with openpyxl"}
    /\ UNCHANGED convertFrame

\* the writer returned: return 0
ConvertReturn0 ==
    /\ pc \in {"xlsx_returned", "openpyxl_returned"}
    /\ outcome' = 0
    /\ pc' = "exited"
    /\ UNCHANGED <<i, disk, failed, workbook, wb, invoked, completed>>
    /\ printed' = printed \cup {"Excel file created"}
    /\ UNCHANGED convertFrame

\* no writer returned: print the message and return 1
ConvertReturn1 ==
    /\ \/ pc = "convert" /\ dir_exists /\ ~HAS_XLSXWRITER /\ ~HAS_OPENPYXL
       \/ pc = "xlsx_raised" /\ ~HAS_OPENPYXL
       \/ pc = "openpyxl_raised"
    /\ outcome' = 1
    /\ pc' = "exited"
    /\ UNCHANGED <<i, disk, failed, workbook, wb, invoked, completed>>
    /\ printed' = printed \cup {"Neither xlsxwriter nor openpyxl is installed"}
    /\ UNCHANGED convertFrame

\* the second writer is called on the directory the first one converted
CallOpenpyxlToo ==
    /\ pc = "xlsx_returned"
    /\ invoked' = Append(invoked, "openpyxl")
    /\ wb' = <<>>
    /\ i' = 1
    /\ pc' = "openpyxl"
    /\ UNCHANGED <<disk, failed, outcome, workbook, completed>>
    /\ UNCHANGED convertFrame
    /\ UNCHANGED printed

(***************************************************************************)
(* From a category to its file name and on to its sheet name.              *)
(***************************************************************************)
\* create_csv_files names the file of category i, written as file number file_count
NameFile ==
    /\ pc = "filename"
    /\ text' = CategoryFileName(file_count, category_order[i])
    /\ pc' = "sheetname"
    /\ UNCHANGED <<script, verdict, sheets_data, sheets_order>>
    /\ UNCHANGED cleanVars
    /\ UNCHANGED envVars
    /\ UNCHANGED bookVars

\* a writer of csv_to_excel derives the sheet name from the file name
NameSheet ==
    /\ pc = "sheetname"
    /\ text' = SheetName(text)
    /\ pc' = "named"
    /\ UNCHANGED <<script, verdict, sheets_data, sheets_order>>
    /\ UNCHANGED cleanVars
    /\ UNCHANGED envVars
    /\ UNCHANGED bookVars

(***************************************************************************)
(* Specifications: one per operation, each from the inputs it can get.     *)
(***************************************************************************)
\* no file read or written, the run not ended
EnvIdle ==
    /\ json_file = [state |-> "missing"]
    /\ writer = <<>>
    /\ workbook = <<>>
    /\ wb = <<>>
    /\ HAS_XLSXWRITER = FALSE
    /\ HAS_OPENPYXL = FALSE
    /\ invoked = <<>>
    /\ completed = {}
    /\ printed = {}
    /\ counts = <<>>
    /\ metadata = <<>>
    /\ disk = <<>>
    /\ dir_exists = FALSE
    /\ dir_made = FALSE
    /\ file_count = 0
    /\ failed = {}
    /\ outcome = -1

Idle ==
    /\ heap = <<>>
    /\ heap0 = <<>>
    /\ strings_data = <<>>
    /\ i = 1
    /\ seen = <<>>
    /\ cleaned = <<>>
    /\ call = 1
    /\ first = <<>>
    /\ decided = <<>>
    /\ sheets_data = <<>>
    /\ sheets_order = <<>>
    /\ EnvIdle

\* _is_technical_string(text) for any text
InitClassify ==
    /\ pc = "classify"
    /\ script = "simple"
    /\ text \in Texts
    /\ verdict = [s \in Scripts |-> "none"]
    /\ Idle

NextClassify == ClassifySimple \/ ClassifyFull

SpecClassify == InitClassify /\ [][NextClassify]_vars

\* clean_and_deduplicate_strings(data['strings']) in either script
InitClean ==
    /\ pc = "clean"
    /\ script \in Scripts
    /\ text = <<>>
    /\ verdict = [s \in Scripts |-> "none"]
    /\ heap \in Lists(CleanRecords)
    /\ heap0 = heap
    /\ strings_data = Ids(Len(heap))
    /\ i = 1
    /\ seen = <<>>
    /\ cleaned = <<>>
    /\ call = 1
    /\ first = <<>>
    /\ decided = <<>>
    /\ sheets_data = <<>>
    /\ sheets_order = <<>>
    /\ EnvIdle

\* clean_and_deduplicate_strings on records with notes
InitCleanNotes ==
    /\ pc = "clean"
    /\ script \in Scripts
    /\ text = <<>>
    /\ verdict = [s \in Scripts |-> "none"]
    /\ heap \in Lists(MixedRecords)
    /\ heap0 = heap
    /\ strings_data = Ids(Len(heap))
    /\ i = 1
    /\ seen = <<>>
    /\ cleaned = <<>>
    /\ call = 1
    /\ first = <<>>
    /\ decided = <<>>
    /\ sheets_data = <<>>
    /\ sheets_order = <<>>
    /\ EnvIdle

NextClean == CleanSkip \/ CleanInsert \/ CleanMerge \/ CleanReturn \/ CleanAgain

SpecClean == InitClean /\ [][NextClean]_vars

SpecCleanNotes == InitCleanNotes /\ [][NextClean]_vars

NextCleanTwice == CleanSkip \/ CleanInsert \/ CleanMerge \/ CleanReturn \/ CleanSameInput

\* the pass called twice on one list
SpecCleanTwice == InitClean /\ [][NextCleanTwice]_vars

\* organize_by_sheets(strings_data) for any list of records
InitOrganize ==
    /\ pc = "organize_call"
    /\ script \in Scripts
    /\ text = <<>>
    /\ verdict = [s \in Scripts |-> "none"]
    /\ heap \in Lists(SheetRecords)
    /\ heap0 = heap
    /\ strings_data = Ids(Len(heap))
    /\ i = 1
    /\ seen = <<>>
    /\ cleaned = <<>>
    /\ call = 1
    /\ first = <<>>
    /\ decided = <<>>
    /\ sheets_data = <<>>
    /\ sheets_order = <<>>
    /\ EnvIdle

NextOrganize == OrganizeBegin \/ OrganizeAppend \/ OrganizeKeyError \/ OrganizeReturn

SpecOrganize == InitOrganize /\ [][NextOrganize]_vars

\* records of the document main loads: one category is not a fixed one
MainRecords ==
    [text : CleanTexts, screenContext : {<<"a">>},
     category : {"Authentication", "Common/Shared", "Onboarding"}, notes : {""}]

\* the metadata object of the document
LoadedMetadata ==
    [extractedAt |-> <<"2","0","2","5","-","0","1","-","1","5","T","1","0",":","3","0",":","0","0">>, totalStrings |-> 9, filesProcessed |-> 2]

\* translation_strings.json: absent, not JSON, or a document
JsonFiles ==
    {[state |-> "missing"], [state |-> "malformed"]}
        \cup {[state |-> "ok", strings |-> s, metadata |-> LoadedMetadata] :
                  s \in Lists(MainRecords)}

\* main() of either script
InitMain ==
    /\ pc = "main"
    /\ script \in Scripts
    /\ text = <<>>
    /\ verdict = [s \in Scripts |-> "none"]
    /\ heap = <<>>
    /\ heap0 = <<>>
    /\ strings_data = <<>>
    /\ i = 1
    /\ seen = <<>>
    /\ cleaned = <<>>
    /\ call = 1
    /\ first = <<>>
    /\ decided = <<>>
    /\ sheets_data = <<>>
    /\ sheets_order = <<>>
    /\ json_file \in JsonFiles
    /\ metadata = <<>>
    /\ disk = <<>>
    /\ dir_exists \in BOOLEAN
    /\ dir_made = FALSE
    /\ file_count = 0
    /\ failed = {}
    /\ outcome = -1
    /\ writer = <<>>
    /\ workbook = <<>>
    /\ wb = <<>>
    /\ HAS_XLSXWRITER = FALSE
    /\ HAS_OPENPYXL = FALSE
    /\ invoked = <<>>
    /\ completed = {}
    /\ printed = {}
    /\ counts = <<>>

NextMain ==
    \/ MainLoad \/ MainLoadFail
    \/ CleanSkip \/ CleanInsert \/ CleanMerge \/ CleanReturn
    \/ MainOrganize
    \/ OrganizeBegin \/ OrganizeAppend \/ OrganizeKeyError \/ OrganizeReturn
    \/ MainKeyError \/ MainSetTotal
    \/ CsvMakeDir \/ CsvInstructions \/ CsvSummary \/ CsvCategoryWrite
    \/ CsvCategorySkip \/ CsvReturn \/ CsvRaise
    \/ XlsInstructions \/ XlsSummary \/ XlsCategorySheet \/ XlsCategorySkip
    \/ XlsSave \/ XlsFormat \/ XlsRaise
    \/ MainExit

SpecMain == InitMain /\ [][NextMain]_vars

\* the values of CSV cells: a plain one and one that ends with a colon
CellValues == {<<"a">>, <<"b",":">>}

\* the rows csv.reader can return, including the row of a blank line
CsvRows == UNION {[1..n -> CellValues] : n \in 0..MaxCells}

\* the contents of a CSV file
CsvContents == UNION {[1..n -> CsvRows] : n \in 0..MaxRows}

\* translation_sheets with a summary file of the given rows, a category file
\* and the instructions file
Directory(summary) ==
    (<<"0","1","_","S","U","M","M","A","R","Y",".","c","s","v">> :> summary)
        @@ (<<"0","0","_","A","u","t","h","e","n","t","i","c","a","t","i","o","n",".","c","s","v">> :> << <<<<"a">>, <<"b",":">>>>, <<<<"b",":">>, <<"a">>, <<"a">>>> >>)
        @@ (<<"0","0","_","I","N","S","T","R","U","C","T","I","O","N","S",".","t","x","t">> :> <<>>)

\* csv_to_excel.main(): the libraries installed or not, the directory present or not
InitConvert ==
    /\ pc = "convert"
    /\ script = "convert"
    /\ text = <<>>
    /\ verdict = [s \in Scripts |-> "none"]
    /\ heap = <<>>
    /\ heap0 = <<>>
    /\ strings_data = <<>>
    /\ i = 1
    /\ seen = <<>>
    /\ cleaned = <<>>
    /\ call = 1
    /\ first = <<>>
    /\ decided = <<>>
    /\ sheets_data = <<>>
    /\ sheets_order = <<>>
    /\ json_file = [state |-> "missing"]
    /\ metadata = <<>>
    /\ dir_exists \in BOOLEAN
    /\ \/ ~dir_exists /\ disk = <<>>
       \/ /\ dir_exists
          /\ disk \in {Directory(s) : s \in {<<>>, << <<>> >>, << <<<<"a">>>>, <<<<"b",":">>, <<"a">>, <<"a">>>> >>}}
    /\ dir_made = FALSE
    /\ file_count = 0
    /\ failed = {}
    /\ outcome = -1
    /\ writer = <<>>
    /\ workbook = <<>>
    /\ wb = <<>>
    /\ HAS_XLSXWRITER \in BOOLEAN
    /\ HAS_OPENPYXL \in BOOLEAN
    /\ invoked = <<>>
    /\ completed = {}
    /\ printed = {}
    /\ counts = <<>>

NextConvert ==
    \/ ConvertNoDir \/ ConvertCallXlsx \/ XlsxSheet \/ XlsxClose \/ XlsxIndexError
    \/ XlsxRaise \/ ConvertCallOpenpyxl \/ OpenpyxlSheet \/ OpenpyxlSave
    \/ OpenpyxlRaise \/ ConvertReturn0 \/ ConvertReturn1

SpecConvert == InitConvert /\ [][NextConvert]_vars

\* both writers called, one after the other, on one directory
InitWriters ==
    /\ pc = "xlsxwriter"
    /\ script = "convert"
    /\ text = <<>>
    /\ verdict = [s \in Scripts |-> "none"]
    /\ heap = <<>>
    /\ heap0 = <<>>
    /\ strings_data = <<>>
    /\ i = 1
    /\ seen = <<>>
    /\ cleaned = <<>>
    /\ call = 1
    /\ first = <<>>
    /\ decided = <<>>
    /\ sheets_data = <<>>
    /\ sheets_order = <<>>
    /\ json_file = [state |-> "missing"]
    /\ metadata = <<>>
    /\ dir_exists = TRUE
    /\ disk \in {Directory(s) : s \in CsvContents}
    /\ dir_made = FALSE
    /\ file_count = 0
    /\ failed = {}
    /\ outcome = -1
    /\ writer = <<>>
    /\ workbook = <<>>
    /\ wb = <<>>
    /\ HAS_XLSXWRITER = TRUE
    /\ HAS_OPENPYXL = TRUE
    /\ invoked = <<"xlsxwriter">>
    /\ completed = {}
    /\ printed = {}
    /\ counts = <<>>

NextWriters ==
    \/ XlsxSheet \/ XlsxClose \/ XlsxIndexError
    \/ CallOpenpyxlToo \/ OpenpyxlSheet \/ OpenpyxlSave

SpecWriters == InitWriters /\ [][NextWriters]_vars

\* any fixed category written as any of the twelve possible file numbers
InitSheetName ==
    /\ pc = "filename"
    /\ script = "simple"
    /\ text = <<>>
    /\ verdict = [s \in Scripts |-> "none"]
    /\ heap = <<>>
    /\ heap0 = <<>>
    /\ strings_data = <<>>
    /\ i \in 1..Len(category_order)
    /\ seen = <<>>
    /\ cleaned = <<>>
    /\ call = 1
    /\ first = <<>>
    /\ decided = <<>>
    /\ sheets_data = <<>>
    /\ sheets_order = <<>>
    /\ json_file = [state |-> "missing"]
    /\ metadata = <<>>
    /\ disk = <<>>
    /\ dir_exists = TRUE
    /\ dir_made = FALSE
    /\ file_count \in 0..(Len(category_order) - 1)
    /\ failed = {}
    /\ outcome = -1
    /\ writer = <<>>
    /\ workbook = <<>>
    /\ wb = <<>>
    /\ HAS_XLSXWRITER = TRUE
    /\ HAS_OPENPYXL = TRUE
    /\ invoked = <<>>
    /\ completed = {}
    /\ printed = {}
    /\ counts = <<>>

NextSheetName == NameFile \/ NameSheet

SpecSheetName == InitSheetName /\ [][NextSheetName]_vars

(***************************************************************************)
(* create_notifications_excel_complete.py: the script, one loop iteration  *)
(* a step.  The pictographs of its texts are left out and the arrow of     *)
(* "1->3" is spelled in two characters; a text an f-string builds is a     *)
(* tuple of characters, a literal text a string.                           *)
(***************************************************************************)
\* the variables no step of create_notifications_excel_complete.py touches
notifFrame == <<script, text, verdict, heap, heap0, strings_data, seen, cleaned, call,
                first, decided, sheets_data, sheets_order, json_file, metadata,
                dir_exists, dir_made, file_count, failed, outcome, writer, workbook,
                HAS_XLSXWRITER, HAS_OPENPYXL, invoked, completed>>

\* headers
headers == <<"No.", "Status", "Category", "Notification Type", "Title", "Body/Message",
             "Icon", "Trigger Event", "Trigger Path", "Recipients",
             "Additional Data Fields", "Notes">>

\* a list in which the entry "Friend Removed" is not triggered yet
notificationsOnePending == <<
    [status |-> "ACTIVE", category |-> "RACE", type |-> "Race Invitation"],
    [status |-> "ACTIVE", category |-> "RACE", type |-> "New Join Request"],
    [status |-> "ACTIVE", category |-> "RACE", type |-> "Race Started"],
    [status |-> "ACTIVE", category |-> "RACE", type |-> "Race Completed (Winner - 1st)"],
    [status |-> "ACTIVE", category |-> "RACE", type |-> "Race Completed (2nd Place)"],
    [status |-> "ACTIVE", category |-> "RACE", type |-> "Race Completed (3rd Place)"],
    [status |-> "ACTIVE", category |-> "RACE", type |-> "Race Completed (Other)"],
    [status |-> "ACTIVE", category |-> "RACE", type |-> "First Finisher"],
    [status |-> "ACTIVE", category |-> "RACE", type |-> "Deadline Alert"],
    [status |-> "ACTIVE", category |-> "RACE", type |-> "Race Cancelled"],
    [status |-> "ACTIVE", category |-> "RACE", type |-> "Join Request Accepted"],
    [status |-> "ACTIVE", category |-> "RACE", type |-> "Invite Accepted"],
    [status |-> "ACTIVE", category |-> "RACE", type |-> "Join Request Declined"],
    [status |-> "ACTIVE", category |-> "RACE", type |-> "Invite Declined"],
    [status |-> "ACTIVE", category |-> "RACE", type |-> "Race Created (Confirmation)"],
    [status |-> "ACTIVE", category |-> "RACE", type |-> "Public Race Announcement"],
    [status |-> "ACTIVE", category |-> "RACE", type |-> "Participant Joined"],
    [status |-> "ACTIVE", category |-> "RACE", type |-> "Overtaking (Overtaker)"],
    [status |-> "ACTIVE", category |-> "RACE", type |-> "Overtaking (Overtaken)"],
    [status |-> "ACTIVE", category |-> "RACE", type |-> "Overtaking (General Alert)"],
    [status |-> "ACTIVE", category |-> "RACE", type |-> "Leader Change"],
    [status |-> "ACTIVE", category |-> "RACE", type |-> "Personal Milestone (25%)"],
    [status |-> "ACTIVE", category |-> "RACE", type |-> "Personal Milestone (50%)"],
    [status |-> "ACTIVE", category |-> "RACE", type |-> "Personal Milestone (75%)"],
    [status |-> "ACTIVE", category |-> "RACE", type |-> "Milestone Alert (25%)"],
    [status |-> "ACTIVE", category |-> "RACE", type |-> "Milestone Alert (50%)"],
    [status |-> "ACTIVE", category |-> "RACE", type |-> "Milestone Alert (75%)"],
    [status |-> "ACTIVE", category |-> "RACE", type |-> "Countdown Timer (5 minutes)"],
    [status |-> "PENDING", category |-> "RACE", type |-> "Proximity Alert"],
    [status |-> "PENDING", category |-> "RACE", type |-> "Race Reminder (15 min)"],
    [status |-> "PENDING", category |-> "RACE", type |-> "Race Reminder (1 hour)"],
    [status |-> "PENDING", category |-> "RACE", type |-> "Race Reminder (1 day)"],
    [status |-> "ACTIVE", category |-> "SOCIAL", type |-> "Friend Request"],
    [status |-> "ACTIVE", category |-> "SOCIAL", type |-> "Friend Request Accepted"],
    [status |-> "ACTIVE", category |-> "SOCIAL", type |-> "Friend Request Declined"],
    [status |-> "PENDING", category |-> "SOCIAL", type |-> "Friend Removed"],
    [status |-> "ACTIVE", category |-> "CHAT", type |-> "Direct Chat Message"],
    [status |-> "ACTIVE", category |-> "CHAT", type |-> "Race Chat Message"]
>>

\* notifications: of each entry the status, the category and the type; its
\* nine other texts go into the columns 5 to 12 as they are
notifications == <<
    [status |-> "ACTIVE", category |-> "RACE", type |-> "Race Invitation"],
    [status |-> "ACTIVE", category |-> "RACE", type |-> "New Join Request"],
    [status |-> "ACTIVE", category |-> "RACE", type |-> "Race Started"],
    [status |-> "ACTIVE", category |-> "RACE", type |-> "Race Completed (Winner - 1st)"],
    [status |-> "ACTIVE", category |-> "RACE", type |-> "Race Completed (2nd Place)"],
    [status |-> "ACTIVE", category |-> "RACE", type |-> "Race Completed (3rd Place)"],
    [status |-> "ACTIVE", category |-> "RACE", type |-> "Race Completed (Other)"],
    [status |-> "ACTIVE", category |-> "RACE", type |-> "First Finisher"],
    [status |-> "ACTIVE", category |-> "RACE", type |-> "Deadline Alert"],
    [status |-> "ACTIVE", category |-> "RACE", type |-> "Race Cancelled"],
    [status |-> "ACTIVE", category |-> "RACE", type |-> "Join Request Accepted"],
    [status |-> "ACTIVE", category |-> "RACE", type |-> "Invite Accepted"],
    [status |-> "ACTIVE", category |-> "RACE", type |-> "Join Request Declined"],
    [status |-> "ACTIVE", category |-> "RACE", type |-> "Invite Declined"],
    [status |-> "ACTIVE", category |-> "RACE", type |-> "Race Created (Confirmation)"],
    [status |-> "ACTIVE", category |-> "RACE", type |-> "Public Race Announcement"],
    [status |-> "ACTIVE", category |-> "RACE", type |-> "Participant Joined"],
    [status |-> "ACTIVE", category |-> "RACE", type |-> "Overtaking (Overtaker)"],
    [status |-> "ACTIVE", category |-> "RACE", type |-> "Overtaking (Overtaken)"],
    [status |-> "ACTIVE", category |-> "RACE", type |-> "Overtaking (General Alert)"],
    [status |-> "ACTIVE", category |-> "RACE", type |-> "Leader Change"],
    [status |-> "ACTIVE", category |-> "RACE", type |-> "Personal Milestone (25%)"],
    [status |-> "ACTIVE", category |-> "RACE", type |-> "Personal Milestone (50%)"],
    [status |-> "ACTIVE", category |-> "RACE", type |-> "Personal Milestone (75%)"],
    [status |-> "ACTIVE", category |-> "RACE", type |-> "Milestone Alert (25%)"],
    [status |-> "ACTIVE", category |-> "RACE", type |-> "Milestone Alert (50%)"],
    [status |-> "ACTIVE", category |-> "RACE", type |-> "Milestone Alert (75%)"],
    [status |-> "ACTIVE", category |-> "RACE", type |-> "Countdown Timer (5 minutes)"],
    [status |-> "PENDING", category |-> "RACE", type |-> "Proximity Alert"],
    [status |-> "PENDING", category |-> "RACE", type |-> "Race Reminder (15 min)"],
    [status |-> "PENDING", category |-> "RACE", type |-> "Race Reminder (1 hour)"],
    [status |-> "PENDING", category |-> "RACE", type |-> "Race Reminder (1 day)"],
    [status |-> "ACTIVE", category |-> "SOCIAL", type |-> "Friend Request"],
    [status |-> "ACTIVE", category |-> "SOCIAL", type |-> "Friend Request Accepted"],
    [status |-> "ACTIVE", category |-> "SOCIAL", type |-> "Friend Request Declined"],
    [status |-> "ACTIVE", category |-> "SOCIAL", type |-> "Friend Removed"],
    [status |-> "ACTIVE", category |-> "CHAT", type |-> "Direct Chat Message"],
    [status |-> "ACTIVE", category |-> "CHAT", type |-> "Race Chat Message"]
>>

\* len([n for n in notifications if n['category'] == category])
CountCategory(category) ==
    Cardinality({k \in 1..Len(notifications) : notifications[k].category = category})

\* the value of counts[name] so far
Counted(name) == IF name \in DOMAIN counts THEN counts[name] ELSE 0

\* summary_data
summary_data(now) ==
    <<  <<"Generated On:", now>>,
        <<"Project:", "NetSphere StepZSync">>,
        <<"", "">>,
        <<"OVERALL STATISTICS", "">>,
        <<"Total Notifications:", Len(notifications)>>,
        <<"Active (Implemented):", counts["active_count"]>>,
        <<"Pending (Not Triggered):", counts["pending_count"]>>,
        <<"", "">>,
        <<"BREAKDOWN BY CATEGORY", "">>,
        <<"Race Notifications:",
          Str(counts["race_active"]) \o <<" ","a","c","t","i","v","e"," ","+"," ">> \o Str(counts["race_pending"])
              \o <<" ","p","e","n","d","i","n","g"," ","="," ">> \o Str(counts["race_active"] + counts["race_pending"])
              \o <<" ","t","o","t","a","l">>>>,
        <<"Social Notifications:", Str(CountCategory("SOCIAL")) \o <<" ","(","a","l","l"," ","a","c","t","i","v","e",")">>>>,
        <<"Chat Notifications:", Str(CountCategory("CHAT")) \o <<" ","(","a","l","l"," ","a","c","t","i","v","e",")">>>>,
        <<"", "">>,
        <<"ACTIVE TRIGGERS (Deployed)", "">>,
        <<"race_invites (onCreate)", "Race invitations & join requests">>,
        <<"races (onUpdate - statusId)", "Race status changes (started, completed, cancelled, ending)">>,
        <<"races (onCreate)", "Race creation & public race broadcasts">>,
        <<"race_invites (onUpdate)", "Invite/join request acceptance/decline">>,
        <<"races/{id}/participants (onCreate)", "Participant joined notifications">>,
        <<"races/{id}/participants (onUpdate)", "Overtaking, leader change, milestones (25%, 50%, 75%)">>,
        <<"friend_requests (onCreate)", "Friend requests">>,
        <<"friend_requests (onUpdate)", "Friend request responses (accepted/declined)">>,
        <<"friends (onDelete)", "Friend removal">>,
        <<"chat_messages (onCreate)", "Direct 1-on-1 chat messages">>,
        <<"race_chat_messages (onCreate)", "Race group chat messages">>,
        <<"", "">>,
        <<"SCHEDULED FUNCTIONS (Active)", "">>,
        <<"autoStartScheduledRaces", "Runs every 1 minute - Auto-starts races at scheduled time (statusId 1->3)">>,
        <<"checkRaceCountdowns", "Runs every 1 minute - Sends 5-minute countdown alerts for ending races">>,
        <<"", "">>,
        <<"KEY FEATURES", "">>,
        <<"Broadcast Notifications", "Public race announcements sent to ALL users (batched by 500)">>,
        <<"Real-time Race Updates", "Overtaking, leader changes, milestone alerts during active races">>,
        <<"Milestone Tracking", "Personal + alert notifications at 25%, 50%, 75% completion">>,
        <<"Duplicate Prevention", "Uses flags (countdownNotificationSent, reachedMilestones array)">>,
        <<"Message Truncation", "100 chars (direct chat), 80 chars (race chat)">>,
        <<"Winner Exclusion", "Completed winners don't receive ongoing race alerts">>,
        <<"", "">>,
        <<"PENDING IMPLEMENTATIONS", "">>,
        <<"Proximity Alerts", "Function ready - needs trigger for <20m opponent distance">>,
        <<"Race Reminders", "Functions ready - need scheduled checks (15min, 1hr, 1day before start)">>,
        <<"", "">>,
        <<"IMPORTANT NOTES", "">>,
        <<"Cloud Functions Deployed:", "functions/index.js exports all triggers">>,
        <<"FCM Service:", "functions/notifications/core/fcmService.js handles all FCM messaging">>,
        <<"Notification Channels:", "race_notifications (Android), default sound + badge (iOS)">>,
        <<"Error Handling:", "Notifications failures don't break main operations (try-catch wrapped)">>
    >>

\* filename
filename == "Notifications_Documentation_COMPLETE.xlsx"

\* for col_num, header in enumerate(headers, 1): one iteration
NotifHeader ==
    /\ pc = "headers"
    /\ i \in 1..Len(headers)
    /\ wb' = [wb EXCEPT ![1].cells = (<<1, i>> :> headers[i]) @@ @]
    /\ IF i = Len(headers) THEN pc' = "rows" /\ i' = 1 ELSE i' = i + 1 /\ UNCHANGED pc
    /\ UNCHANGED <<counts, disk, printed>>
    /\ UNCHANGED notifFrame

\* for idx, notif in enumerate(notifications, 1): one iteration, row idx + 1
NotifRow ==
    /\ pc = "rows"
    /\ i \in 1..Len(notifications)
    /\ wb' = [wb EXCEPT ![1].cells =
                  (<<i + 1, 1>> :> i) @@ (<<i + 1, 2>> :> notifications[i].status)
                  @@ (<<i + 1, 3>> :> notifications[i].category)
                  @@ (<<i + 1, 4>> :> notifications[i].type) @@ @]
    /\ IF i = Len(notifications)
          THEN pc' = "summary_sheet" /\ i' = 1
          ELSE i' = i + 1 /\ UNCHANGED pc
    /\ UNCHANGED <<counts, disk, printed>>
    /\ UNCHANGED notifFrame

\* summary_ws = wb.create_sheet("Summary & Statistics", 0) and its title cell
NotifSummarySheet ==
    /\ pc = "summary_sheet"
    /\ wb' = <<[name |-> "Summary & Statistics",
                cells |-> (<<1, 1>> :> "Notification System - Complete Documentation")]>>
             \o wb
    /\ pc' = "active_count"
    /\ UNCHANGED <<i, counts, disk, printed>>
    /\ UNCHANGED notifFrame

\* active_count = len([n for n in notifications if n["status"] == "ACTIVE"]): one iteration
NotifActiveCount ==
    /\ pc = "active_count"
    /\ i \in 1..Len(notifications)
    /\ counts' = ("active_count" :> (Counted("active_count") + IF notifications[i].status = "ACTIVE" THEN 1 ELSE 0)) @@ counts
    /\ IF i = Len(notifications)
          THEN pc' = "pending_count" /\ i' = 1
          ELSE i' = i + 1 /\ UNCHANGED pc
    /\ UNCHANGED <<wb, disk, printed>>
    /\ UNCHANGED notifFrame

\* pending_count = len([n for n in notifications if n["status"] == "PENDING"]): one iteration
NotifPendingCount ==
    /\ pc = "pending_count"
    /\ i \in 1..Len(notifications)
    /\ counts' = ("pending_count" :> (Counted("pending_count") + IF notifications[i].status = "PENDING" THEN 1 ELSE 0)) @@ counts
    /\ IF i = Len(notifications)
          THEN pc' = "race_active" /\ i' = 1
          ELSE i' = i + 1 /\ UNCHANGED pc
    /\ UNCHANGED <<wb, disk, printed>>
    /\ UNCHANGED notifFrame

\* race_active = len([n for n in notifications if RACE and ACTIVE]): one iteration
NotifRaceActive ==
    /\ pc = "race_active"
    /\ i \in 1..Len(notifications)
    /\ counts' = ("race_active" :> (Counted("race_active") + IF notifications[i].category = "RACE" /\ notifications[i].status = "ACTIVE" THEN 1 ELSE 0)) @@ counts
    /\ IF i = Len(notifications)
          THEN pc' = "race_pending" /\ i' = 1
          ELSE i' = i + 1 /\ UNCHANGED pc
    /\ UNCHANGED <<wb, disk, printed>>
    /\ UNCHANGED notifFrame

\* race_pending = len([n for n in notifications if RACE and PENDING]): one iteration
NotifRacePending ==
    /\ pc = "race_pending"
    /\ i \in 1..Len(notifications)
    /\ counts' = ("race_pending" :> (Counted("race_pending") + IF notifications[i].category = "RACE" /\ notifications[i].status = "PENDING" THEN 1 ELSE 0)) @@ counts
    /\ IF i = Len(notifications)
          THEN pc' = "summary" /\ i' = 1
          ELSE i' = i + 1 /\ UNCHANGED pc
    /\ UNCHANGED <<wb, disk, printed>>
    /\ UNCHANGED notifFrame

\* summary_data, with a value of datetime.now().strftime("%Y-%m-%d %H:%M:%S"),
\* and the loop over enumerate(summary_data, 2) that writes its rows into
\* the summary sheet
NotifSummary ==
    /\ pc = "summary"
    /\ \E now \in {"2025-10-01 09:00:00", "2025-12-31 23:59:59"} :
           LET rows == summary_data(now)
           IN  wb' = [wb EXCEPT ![1].cells =
                         [p \in (2..(Len(rows) + 1)) \X {1, 2} |-> rows[p[1] - 1][p[2]]]
                         @@ @]
    /\ pc' = "save"
    /\ UNCHANGED <<i, counts, disk, printed>>
    /\ UNCHANGED notifFrame

\* wb.save(filename) and the report printed after it
NotifSave ==
    /\ pc = "save"
    /\ disk' = (filename :> wb) @@ disk
    /\ printed' = printed \cup
           { <<"C","O","M","P","L","E","T","E"," ","E","x","c","e","l"," ","f","i","l","e"," ","c","r","e","a","t","e","d",":"," ","N","o","t","i","f","i","c","a","t","i","o","n","s","_","D","o","c","u","m","e","n","t","a","t","i","o","n","_","C","O","M","P","L","E","T","E",".","x","l","s","x">>,
             <<"T","o","t","a","l"," ","n","o","t","i","f","i","c","a","t","i","o","n","s"," ","d","o","c","u","m","e","n","t","e","d",":"," ">> \o Str(Len(notifications)),
             <<" "," "," ","A","C","T","I","V","E",":"," ">> \o Str(counts["active_count"]),
             <<" "," "," ","P","E","N","D","I","N","G",":"," ">> \o Str(counts["pending_count"]),
             <<"B","y"," ","C","a","t","e","g","o","r","y",":">>,
             <<" "," "," ","-"," ","R","a","c","e",":"," ">> \o Str(counts["race_active"]) \o <<" ","a","c","t","i","v","e"," ","+"," ">>
                 \o Str(counts["race_pending"]) \o <<" ","p","e","n","d","i","n","g"," ","="," ">>
                 \o Str(counts["race_active"] + counts["race_pending"]) \o <<" ","t","o","t","a","l">>,
             <<" "," "," ","-"," ","S","o","c","i","a","l",":"," ">> \o Str(CountCategory("SOCIAL")) \o <<" ","(","a","l","l"," ","a","c","t","i","v","e",")">>,
             <<" "," "," ","-"," ","C","h","a","t",":"," ">> \o Str(CountCategory("CHAT")) \o <<" ","(","a","l","l"," ","a","c","t","i","v","e",")">> }
    /\ pc' = "saved"
    /\ UNCHANGED <<i, wb, counts>>
    /\ UNCHANGED notifFrame

\* the script starts: wb = openpyxl.Workbook(), ws.title = "All Notifications"
InitNotifications ==
    /\ pc = "headers"
    /\ script = "complete"
    /\ text = <<>>
    /\ verdict = [s \in Scripts |-> "none"]
    /\ heap = <<>>
    /\ heap0 = <<>>
    /\ strings_data = <<>>
    /\ i = 1
    /\ seen = <<>>
    /\ cleaned = <<>>
    /\ call = 1
    /\ first = <<>>
    /\ decided = <<>>
    /\ sheets_data = <<>>
    /\ sheets_order = <<>>
    /\ json_file = [state |-> "missing"]
    /\ metadata = <<>>
    /\ disk = <<>>
    /\ dir_exists = FALSE
    /\ dir_made = FALSE
    /\ file_count = 0
    /\ failed = {}
    /\ outcome = -1
    /\ writer = <<>>
    /\ workbook = <<>>
    /\ wb = <<[name |-> "All Notifications", cells |-> <<>>]>>
    /\ HAS_XLSXWRITER = FALSE
    /\ HAS_OPENPYXL = TRUE
    /\ invoked = <<>>
    /\ completed = {}
    /\ printed = {}
    /\ counts = <<>>

NextNotifications ==
    \/ NotifHeader \/ NotifRow \/ NotifSummarySheet
    \/ NotifActiveCount \/ NotifPendingCount \/ NotifRaceActive \/ NotifRacePending
    \/ NotifSummary \/ NotifSave

SpecNotifications == InitNotifications /\ [][NextNotifications]_vars

\* a run of any of the three scripts
InitRuns == InitMain \/ InitConvert

NextRuns == NextMain \/ NextConvert

SpecRuns == InitRuns /\ [][NextRuns]_vars

Init ==
    \/ InitClassify \/ InitClean \/ InitCleanNotes \/ InitOrganize \/ InitMain
    \/ InitConvert \/ InitWriters \/ InitSheetName \/ InitNotifications

Next ==
    \/ NextClassify \/ NextClean \/ NextOrganize \/ NextMain
    \/ NextConvert \/ NextWriters \/ NextSheetName \/ NextCleanTwice
    \/ NextNotifications

Spec == Init /\ [][Next]_vars

(***************************************************************************)
(* Properties of clean_and_deduplicate_strings (SpecClean).                *)
(***************************************************************************)
\* the first call has returned
Returned1 == pc = "returned" /\ call = 1

\* the key the specification gives a record: (text lowercased and stripped, category)
NormKey(r) == <<Strip(Lower(r.text)), r.category>>

\* the Classifier accepts input record k
Accepted(k) == ~IsTechnical(script, heap0[k].text)

\* the input records the Classifier accepts that have the key
AcceptedOf(key) == {k \in 1..Len(heap0) : NormKey(heap0[k]) = key /\ Accepted(k)}

\* the first accepted input record of a key
FirstOf(key) ==
    LET S == AcceptedOf(key)
    IN  CHOOSE k \in S : \A j \in S : k <= j

\* positions of the output that hold a record of the key
OutputOf(key) == {a \in 1..Len(cleaned) : NormKey(heap[cleaned[a]]) = key}

\* C1: the returned sequence holds no two records with the same
\* (text lowercased and stripped, category) pair.
C1_NoDuplicateKeys ==
    pc = "returned" =>
        \A a, b \in 1..Len(cleaned) :
            a # b => NormKey(heap[cleaned[a]]) # NormKey(heap[cleaned[b]])

\* three accepted records of two keys came back as two records
C1_Witness ==
    /\ Returned1
    /\ Len(heap0) = 3
    /\ \A k \in 1..3 : Accepted(k)
    /\ Len(cleaned) = 2

\* C2: every input record the Classifier accepts has exactly one output
\* record with its key, however many input records share that key.
C2_OnePerAcceptedKey ==
    Returned1 =>
        \A k \in 1..Len(heap0) :
            Accepted(k) => Cardinality(OutputOf(NormKey(heap0[k]))) = 1

\* a key shared by two accepted records, next to a rejected record
C2_Witness ==
    /\ Returned1
    /\ \E k \in 1..Len(heap0) : Cardinality(AcceptedOf(NormKey(heap0[k]))) >= 2
    /\ \E k \in 1..Len(heap0) : ~Accepted(k)
    /\ Len(cleaned) = 1

\* the context the specification describes: acc followed by "; " + context of
\* each accepted record k, k+1, ... of the key whose context acc lacks
RECURSIVE FoldContexts(_, _, _)
FoldContexts(acc, key, k) ==
    IF k > Len(heap0) THEN acc
    ELSE IF /\ NormKey(heap0[k]) = key
            /\ Accepted(k)
            /\ ~Contains(acc, heap0[k].screenContext)
         THEN FoldContexts(acc \o <<";", " ">> \o heap0[k].screenContext, key, k + 1)
         ELSE FoldContexts(acc, key, k + 1)

ExpectedContext(key) ==
    LET f == FirstOf(key)
    IN  FoldContexts(heap0[f].screenContext, key, f + 1)

\* C3: each output record's screenContext is the first-seen record's
\* screenContext followed, for each later accepted record of the key in input
\* order, by "; " and its screenContext exactly when the accumulated context
\* did not contain it.
C3_ContextIsFold ==
    Returned1 =>
        \A a \in 1..Len(cleaned) :
            heap[cleaned[a]].screenContext =
                ExpectedContext(NormKey(heap[cleaned[a]]))

\* three accepted records of one key: one context appended, one found inside
C3_Witness ==
    /\ Returned1
    /\ Len(heap0) = 3
    /\ Cardinality(AcceptedOf(NormKey(heap0[1]))) = 3
    /\ heap0[1].screenContext = <<"a">>
    /\ heap0[2].screenContext = <<"a","b">>
    /\ heap0[3].screenContext = <<"a">>
    /\ heap[cleaned[1]].screenContext = <<"a",";"," ","a","b">>

\* C4: the output is a subsequence of the input: each output record is the
\* first accepted input record of its key, and output records keep the
\* relative order of the input.
C4_FirstSeenInOrder ==
    Returned1 =>
        /\ \A a \in 1..Len(cleaned) :
               /\ cleaned[a] \in 1..Len(heap0)
               /\ Accepted(cleaned[a])
               /\ cleaned[a] = FirstOf(NormKey(heap0[cleaned[a]]))
        /\ \A a, b \in 1..Len(cleaned) : a < b => cleaned[a] < cleaned[b]

\* two first-seen records come back in input order, a merged one between them
C4_Witness ==
    /\ Returned1
    /\ Len(heap0) = 3
    /\ cleaned = <<1, 3>>
    /\ NormKey(heap0[2]) = NormKey(heap0[1])

\* C5: the pass applied to its own output returns the same records, field by
\* field, in the same order.
C5_Idempotent ==
    (pc = "returned" /\ call = 2) => Values(cleaned) = first

\* the second call returned an output of two records, one of them merged
C5_Witness ==
    /\ pc = "returned"
    /\ call = 2
    /\ Len(first) = 2
    /\ \E a \in 1..2 : Contains(first[a].screenContext, <<";", " ">>)

\* C6: the screenContext an accepted input record had on input is a substring
\* of the screenContext of the output record with its key.
C6_NoContextLost ==
    Returned1 =>
        \A k \in 1..Len(heap0) :
            Accepted(k) =>
                \E a \in OutputOf(NormKey(heap0[k])) :
                    Contains(heap[cleaned[a]].screenContext, heap0[k].screenContext)

\* merged records: one whose context was found inside, one whose context was appended
C6_Witness ==
    /\ Returned1
    /\ Len(heap0) = 3
    /\ Len(cleaned) = 1
    /\ \A k \in 1..3 : Accepted(k)
    /\ heap0[2].screenContext = heap0[1].screenContext
    /\ heap0[3].screenContext # heap0[1].screenContext
    /\ heap[1].screenContext # heap0[1].screenContext

(***************************************************************************)
(* Properties of _is_technical_string (SpecClassify).                      *)
(***************************************************************************)
\* the text contains a token of the block-list, compared case-insensitively
BlockListed(list, t) ==
    \E k \in DOMAIN list : Contains(Lower(t), Lower(list[k]))

\* the block-list of a script
BlockList(s) ==
    IF s = "simple" THEN technical_keywords_simple ELSE technical_keywords_full

\* C7: in both scripts the classifier rejects every text that contains a
\* token of the script's block-list under case-insensitive comparison, the
\* mixed-case tokens included.
C7_BlockListRejects ==
    \A s \in Scripts :
        (verdict[s] # "none" /\ BlockListed(BlockList(s), text)) =>
            verdict[s] = "reject"

\* the text is made only of letters and spaces and has a space
AlphabeticSentence(t) ==
    /\ \A k \in 1..Len(t) : IsAlphaChar(t[k]) \/ t[k] = " "
    /\ \E k \in 1..Len(t) : t[k] = " "

\* the text has a letter and every letter of it is uppercase
EntirelyUpper(t) ==
    /\ \E k \in 1..Len(t) : IsUpperChar(t[k])
    /\ ~\E k \in 1..Len(t) : IsLowerChar(t[k])

\* C8 as stated: every text of letters and spaces with at least one space is accepted.
C8_SentenceAccepted ==
    (verdict["simple"] # "none" /\ AlphabeticSentence(text)) =>
        verdict["simple"] = "accept"

\* C8 as amended: a text of letters and spaces with at least one space is
\* accepted when it has at least 3 characters, contains no block-list token
\* case-insensitively, and is not an entirely uppercase text shorter than 10
\* characters.
C8_SentenceAcceptedUnlessRuled ==
    ( /\ verdict["simple"] # "none"
      /\ AlphabeticSentence(text)
      /\ Len(text) >= 3
      /\ ~BlockListed(technical_keywords_simple, text)
      /\ ~(EntirelyUpper(text) /\ Len(text) < 10) ) =>
        verdict["simple"] = "accept"

\* an accepted sentence of more than 3 characters with a capital inside
C8_Witness ==
    /\ verdict["simple"] = "accept"
    /\ AlphabeticSentence(text)
    /\ Len(text) > 3
    /\ \E k \in 2..Len(text) : IsUpperChar(text[k])
    /\ \E k \in 1..Len(text) : IsLowerChar(text[k])

\* the five rules of the specification
Rule1(t) == BlockListed(technical_keywords_simple, t)

Rule2(t) ==
    /\ Len(t) > 3
    /\ \E k \in 2..Len(t) : IsUpperChar(t[k])
    /\ ~\E k \in 1..Len(t) : IsSpaceChar(t[k])

Rule3(t) == Cardinality({k \in 1..Len(t) : t[k] = "_"}) > 1

Rule4(t) == Len(t) < 3 /\ ~(Len(t) > 0 /\ \A k \in 1..Len(t) : IsAlphaChar(t[k]))

Rule5(t) == EntirelyUpper(t) /\ Len(t) < 10

\* C9: generate_excel_simple.py rejects a text if and only if one of the
\* five rules holds of it.
C9_RejectIffSomeRule ==
    verdict["simple"] # "none" =>
        (verdict["simple"] = "reject" <=>
            (Rule1(text) \/ Rule2(text) \/ Rule3(text) \/ Rule4(text) \/ Rule5(text)))

\* a text of 9 characters only rule 5 rejects
C9_Witness ==
    /\ verdict["simple"] = "reject"
    /\ Len(text) = 9
    /\ Rule5(text)
    /\ ~(Rule1(text) \/ Rule2(text) \/ Rule3(text) \/ Rule4(text))

(***************************************************************************)
(* Properties of organize_by_sheets (SpecOrganize).                        *)
(***************************************************************************)
\* the input positions whose category is not a fixed one
Unknown == {k \in 1..Len(heap0) : heap0[k].category \notin Range(category_order)}

\* the rows of the records among the first n of category c, in input order
RECURSIVE RowsOf(_, _)
RowsOf(c, n) ==
    IF n = 0 THEN <<>>
    ELSE IF heap0[n].category = c
         THEN Append(RowsOf(c, n - 1), Row(heap0[n]))
         ELSE RowsOf(c, n - 1)

\* the call of organize_by_sheets has ended
OrganizeEnded == pc \in {"organized", "KeyError"}

InputOf(c) ==
    LET OfCategory(r) == r.category = c
    IN  SelectSeq(heap0, OfCategory)

\* C11: when every category is a fixed one, each bucket holds exactly the
\* records of its category, as rows carrying text, screenContext and notes
\* unchanged, in input order.
C11_BucketsKeepRows ==
    pc = "organized" =>
        /\ DOMAIN sheets_data = Range(category_order)
        /\ \A c \in Range(category_order) :
               /\ Len(sheets_data[c]) = Len(InputOf(c))
               /\ \A k \in 1..Len(InputOf(c)) :
                      /\ sheets_data[c][k].EnglishText = InputOf(c)[k].text
                      /\ sheets_data[c][k].ScreenContext = InputOf(c)[k].screenContext
                      /\ sheets_data[c][k].Notes = InputOf(c)[k].notes

\* three records in two buckets, two rows of one bucket differing in context and notes
C11_Witness ==
    /\ pc = "organized"
    /\ Len(heap0) = 3
    /\ Len(sheets_data["Authentication"]) = 2
    /\ Len(sheets_data["Common/Shared"]) = 1
    /\ sheets_data["Authentication"][1].Notes # sheets_data["Authentication"][2].Notes
    /\ sheets_data["Authentication"][1].ScreenContext
           # sheets_data["Authentication"][2].ScreenContext

(***************************************************************************)
(* Frame of clean_and_deduplicate_strings (SpecCleanNotes).                *)
(***************************************************************************)
\* C17: the pass never changes text, notes or category of a record; the text
\* and notes of an output record are those of the first accepted record of
\* its key.
C17_FirstSeenTextAndNotes ==
    /\ \A k \in 1..Len(heap) :
           /\ heap[k].text = heap0[k].text
           /\ heap[k].notes = heap0[k].notes
           /\ heap[k].category = heap0[k].category
    /\ Returned1 =>
           \A a \in 1..Len(cleaned) :
               LET f == FirstOf(NormKey(heap[cleaned[a]]))
               IN  /\ heap[cleaned[a]].text = heap0[f].text
                   /\ heap[cleaned[a]].notes = heap0[f].notes

\* two accepted records of one key that differ in text and notes were merged
C17_Witness ==
    /\ Returned1
    /\ Len(heap0) = 2
    /\ Len(cleaned) = 1
    /\ heap0[1].text # heap0[2].text
    /\ heap0[1].notes # heap0[2].notes
    /\ heap[1].screenContext # heap0[1].screenContext

\* the decision of a script's classifier for a text, by itself
DecisionFor(t) ==
    Decision(IF script = "simple" THEN IsTechnicalSimple(t) ELSE IsTechnicalFull(t))

\* C18: what the pass does with a record is decided by the record's text
\* alone: it is the classifier's verdict for that text whatever the category,
\* context, notes and position of the record and whatever the other records
\* are; a rejection changes nothing but the loop position.
C18_DecisionByTextOnly ==
    /\ [](\A k \in DOMAIN decided : decided[k] = DecisionFor(heap0[k].text))
    /\ [](\A j, k \in DOMAIN decided :
              heap0[j].text = heap0[k].text => decided[j] = decided[k])
    /\ [][(/\ pc = "clean"
           /\ i <= Len(strings_data)
           /\ strings_data[i] \in DOMAIN decided'
           /\ decided'[strings_data[i]] = "reject")
          => UNCHANGED <<heap, seen, cleaned, strings_data, sheets_data>>]_vars

\* one rejected text decided three times, for records that differ in
\* category and context, and in notes
C18_Witness ==
    \E j, k, l \in DOMAIN decided :
        /\ j < k /\ k < l
        /\ heap0[j].text = heap0[k].text
        /\ heap0[k].text = heap0[l].text
        /\ heap0[j].category # heap0[k].category
        /\ heap0[j].screenContext # heap0[k].screenContext
        /\ heap0[k].notes # heap0[l].notes
        /\ decided[l] = "reject"


(***************************************************************************)
(* Buckets and category files (SpecMain).                                  *)
(***************************************************************************)
\* the mapping organize_by_sheets returned is in use
Organized == pc \in {"organized", "create", "instructions", "summary", "categories",
                     "summary_sheet", "sheets", "format", "created"}

\* the category files on disk that belong to category c
CategoryFiles(c) ==
    {n \in DOMAIN disk : \E k \in 0..Len(category_order) : n = CategoryFileName(k, c)}

\* C12: the mapping organize_by_sheets returns has exactly the twelve fixed
\* categories as keys, in display order, with an empty list where no record
\* has the category; create_csv_files writes exactly one category file for
\* each non-empty bucket and none for an empty one.
C12_TwelveKeysOneFileEach ==
    /\ Organized =>
           /\ sheets_order = category_order
           /\ Len(sheets_order) = 12
           /\ DOMAIN sheets_data = Range(category_order)
           /\ \A c \in Range(category_order) :
                  (\A k \in 1..Len(cleaned) : heap[cleaned[k]].category # c)
                      => sheets_data[c] = <<>>
    /\ (script = "simple" /\ pc \in {"categories", "created"}) =>
           \A c \in Range(category_order) :
               sheets_data[c] = <<>> => CategoryFiles(c) = {}
    /\ (script = "simple" /\ pc = "created") =>
           /\ \A c \in Range(category_order) :
                  sheets_data[c] # <<>> => Cardinality(CategoryFiles(c)) = 1
           /\ \A n \in DOMAIN disk \ {INSTRUCTIONS_txt, SUMMARY_csv} :
                  \E c \in Range(category_order) : n \in CategoryFiles(c)

\* create_csv_files returned after writing two category files, ten buckets empty
C12_Witness ==
    /\ script = "simple"
    /\ pc = "created"
    /\ Cardinality(DOMAIN disk) = 4
    /\ Cardinality({c \in Range(category_order) : sheets_data[c] = <<>>}) = 10

(***************************************************************************)
(* Failures of main (SpecMain).                                            *)
(***************************************************************************)
\* the run has created the output directory, a file or a sheet
WroteSomething == DOMAIN disk # {} \/ dir_made \/ Len(writer) > 0

\* load_strings_data returned the document
Loaded == DOMAIN metadata # {}

\* C13: in main of both scripts a failed load of translation_strings.json
\* ends the run at once with nothing created: the load neither returns nor
\* is followed by a write, and every write comes after a successful load.
C13_NoWriteWithoutLoad ==
    /\ json_file.state # "ok" => ~Loaded /\ ~WroteSomething
    /\ "load" \in failed => pc = "exited" /\ outcome = 1 /\ ~WroteSomething
    /\ WroteSomething => Loaded /\ "load" \notin failed

\* the run of a script on a malformed file has ended, nothing written
C13_Witness ==
    /\ json_file.state = "malformed"
    /\ "load" \in failed
    /\ pc = "exited"
    /\ outcome = 1
    /\ ~dir_exists

(***************************************************************************)
(* Failures and the exit status (SpecRuns).                                *)
(***************************************************************************)
\* the run has ended or is about to return after an exception was caught
Ending == pc \in {"exited", "xlsx_raised", "openpyxl_raised"}

\* C14 as stated: in every script a failure of a step is terminal, nothing
\* runs after it, and a run in which a step failed never ends with outcome 0.
C14_FailureTerminal ==
    /\ failed # {} => Ending
    /\ (pc = "exited" /\ failed # {}) => outcome # 0

\* C14: no step is ever tried twice.  In generate_excel_simple.py and
\* generate_excel.py a failure of a step ends the run with a non-zero
\* outcome.  In csv_to_excel.main the failure of the xlsxwriter writer is
\* followed by one call of the openpyxl writer when openpyxl is installed,
\* and the run ends with outcome 0 exactly when a writer completed; a failure
\* of the openpyxl writer is terminal with a non-zero outcome.
C14_FailureTerminalButFallback ==
    /\ script \in Scripts =>
           /\ failed # {} => pc = "exited"
           /\ pc = "exited" => (outcome = 0 <=> failed = {})
    /\ script = "convert" =>
           /\ \A j, k \in 1..Len(invoked) : invoked[j] = invoked[k] => j = k
           /\ (failed # {} /\ ~Ending) =>
                  /\ failed = {"xlsxwriter"}
                  /\ invoked = <<"xlsxwriter", "openpyxl">>
                  /\ HAS_OPENPYXL
           /\ "openpyxl" \in failed => Ending /\ outcome # 0
           /\ pc = "exited" => (outcome = 0 <=> completed # {})
           /\ (pc = "exited" /\ failed # {} /\ outcome = 0) =>
                  failed = {"xlsxwriter"} /\ completed = {"openpyxl"}

\* csv_to_excel.main returned 0 although the xlsxwriter writer had raised
C14_Witness ==
    /\ script = "convert"
    /\ pc = "exited"
    /\ outcome = 0
    /\ failed = {"xlsxwriter"}
    /\ completed = {"openpyxl"}

(***************************************************************************)
(* The choice of the backend in csv_to_excel.main (SpecConvert).           *)
(***************************************************************************)
\* C15: main calls the xlsxwriter writer first when xlsxwriter is installed;
\* the openpyxl writer is called only when xlsxwriter is not installed or
\* its writer raised; at most one writer completes; main returns 0 exactly
\* when a writer completed and 1 otherwise.
C15_XlsxwriterFirst ==
    /\ (HAS_XLSXWRITER /\ Len(invoked) > 0) => invoked[1] = "xlsxwriter"
    /\ \A k \in 1..Len(invoked) :
           /\ invoked[k] = "xlsxwriter" => HAS_XLSXWRITER /\ k = 1
           /\ invoked[k] = "openpyxl" =>
                  /\ HAS_OPENPYXL
                  /\ ~HAS_XLSXWRITER \/ "xlsxwriter" \in failed
    /\ Cardinality(completed) <= 1
    /\ completed \subseteq Range(invoked) \ failed
    /\ pc = "exited" =>
           /\ outcome \in {0, 1}
           /\ outcome = 0 <=> completed # {}

\* both libraries installed: the xlsxwriter writer raised, the openpyxl
\* writer filled two sheets and main returned 0
C15_Witness ==
    /\ pc = "exited"
    /\ HAS_XLSXWRITER
    /\ invoked = <<"xlsxwriter", "openpyxl">>
    /\ Len(wb) = 2
    /\ outcome = 0

\* C20: when the directory translation_sheets does not exist main returns 1,
\* calls no writer and creates no workbook.
C20_NoDirectoryNoWorkbook ==
    ~dir_exists =>
        /\ pc \in {"convert", "exited"}
        /\ invoked = <<>>
        /\ completed = {}
        /\ output_file \notin DOMAIN disk
        /\ pc = "exited" => outcome = 1

\* main returned without the directory, both libraries installed
C20_Witness ==
    /\ ~dir_exists
    /\ pc = "exited"
    /\ outcome = 1
    /\ HAS_XLSXWRITER
    /\ HAS_OPENPYXL

(***************************************************************************)
(* The two writers on one directory (SpecWriters).                         *)
(***************************************************************************)
\* both writers have returned
BothCompleted == pc = "openpyxl_returned" /\ completed = {"xlsxwriter", "openpyxl"}

\* C19: when both writers complete on a directory they create sheets of the
\* same names in the same order, and every cell of every CSV row, the
\* summary file's included, is written by both with the same value at the
\* same position: (row_num, col_num) counted from 0 by xlsxwriter is
\* (row, column) counted from 1 by openpyxl.
C19_BackendsAgree ==
    BothCompleted =>
        /\ Len(workbook) = Len(wb)
        /\ \A s \in 1..Len(wb) :
               /\ workbook[s].name = wb[s].name
               /\ LET rows == disk[csv_files[s]]
                  IN  \A r \in 1..Len(rows) : \A c \in 1..Len(rows[r]) :
                          /\ <<r, c>> \in DOMAIN wb[s].cells
                          /\ <<r - 1, c - 1>> \in DOMAIN workbook[s].cells
                          /\ wb[s].cells[<<r, c>>] = rows[r][c]
                          /\ workbook[s].cells[<<r - 1, c - 1>>] = rows[r][c]

(***************************************************************************)
(* The summary (SpecMain).                                                 *)
(***************************************************************************)
\* the index of the first row of a summary whose first cell is the given label
RowOf(rows, label) ==
    CHOOSE k \in 1..Len(rows) :
        /\ rows[k][1] = label
        /\ \A j \in 1..(k - 1) : rows[j][1] # label

\* rows is a summary over the given categories: the progress rows follow the
\* tracker header to the end, one per category in order, each a category
\* name, the size of its bucket, zero and '0%'; the rows after 'Strings by
\* Category:' repeat name and size and are closed by an empty row
SummaryAgrees(rows, categories, zero, Num(_)) ==
    LET tracker == RowOf(rows, <<"C","a","t","e","g","o","r","y">>)
        listing == RowOf(rows, <<"S","t","r","i","n","g","s"," ","b","y"," ","C","a","t","e","g","o","r","y",":">>)
        n == Len(rows) - tracker
    IN  /\ n = Len(categories)
        /\ listing + n < tracker
        /\ rows[listing + n + 1][1] = <<>>
        /\ \A j \in 1..n :
               LET progress == rows[tracker + j]
                   count == rows[listing + j]
               IN  /\ Len(progress) = 4
                   /\ progress[1] = Chars(categories[j])
                   /\ progress[2] = Num(Len(sheets_data[categories[j]]))
                   /\ progress[3] = zero
                   /\ progress[4] = <<"0","%">>
                   /\ Len(count) = 2
                   /\ count[1] = progress[1]
                   /\ count[2] = progress[2]

\* C16: in the summary of create_summary_file and of create_summary_sheet
\* every progress row has Translated 0 and Progress '0%', and its total is
\* the number of records in the bucket of its category, which is also the
\* count given for the category under 'Strings by Category'.  The file lists
\* the categories with records, the sheet all twelve.
C16_ProgressRowsAtZero ==
    /\ (script = "simple" /\ SUMMARY_csv \in DOMAIN disk) =>
           LET HasRecords(c) == sheets_data[c] # <<>>
           IN  SummaryAgrees(disk[SUMMARY_csv], SelectSeq(category_order, HasRecords),
                             <<"0">>, Str)
    /\ (script = "full" /\ Len(writer) >= 2) =>
           LET Same(n) == n
           IN  /\ writer[2].name = <<"S","u","m","m","a","r","y">>
               /\ SummaryAgrees(writer[2].rows, category_order, 0, Same)

\* the summary file written for two buckets of one record each, the total of
\* the report being two
C16_Witness ==
    /\ script = "simple"
    /\ SUMMARY_csv \in DOMAIN disk
    /\ metadata.totalStrings = 2
    /\ Len(disk[SUMMARY_csv]) = 16
    /\ Cardinality({c \in Range(category_order) : Len(sheets_data[c]) = 1}) = 2

(***************************************************************************)
(* The messages of csv_to_excel.main (SpecConvert).                        *)
(***************************************************************************)
\* C21: main prints 'Neither xlsxwriter nor openpyxl is installed' only in
\* runs where neither library is installed.
C21_NeitherMeansNeither ==
    "Neither xlsxwriter nor openpyxl is installed" \in printed
        => ~HAS_XLSXWRITER /\ ~HAS_OPENPYXL

(***************************************************************************)
(* The numbering of the files of create_csv_files (SpecMain).              *)
(***************************************************************************)
\* the number prefix of a file name
NumberPrefix(f) == SubSeq(f, 1, 2)

\* C22: the files create_csv_files writes are numbered as the instructions
\* say: the category files carry the prefixes 01, 02, ... in the fixed
\* category order, and no two files of the directory share a prefix.
C22_NumberedFromOne ==
    (script = "simple" /\ pc = "created") =>
        /\ \A k \in 1..Len(NonEmptyKeys) :
               \E f \in CategoryFiles(NonEmptyKeys[k]) : NumberPrefix(f) = TwoDigits(k)
        /\ \A f, g \in DOMAIN disk : f # g => NumberPrefix(f) # NumberPrefix(g)

(***************************************************************************)
(* The total of the report (SpecMain).                                     *)
(***************************************************************************)
\* main has grouped the records and set the total it reports
Grouped == pc \in {"create", "instructions", "summary", "categories",
                   "summary_sheet", "sheets", "format", "created"}

\* the sizes of the buckets of the first k fixed categories, added up
RECURSIVE BucketTotal(_)
BucketTotal(k) ==
    IF k = 0 THEN 0 ELSE Len(sheets_data[category_order[k]]) + BucketTotal(k - 1)

\* C23: once main has grouped the records, the total it reports, in the
\* metadata, the instructions and the summary, is the number of records
\* clean_and_deduplicate_strings returned and the sum of the sizes of the
\* twelve buckets.
C23_TotalIsCleanedIsBuckets ==
    Grouped =>
        /\ metadata.totalStrings = Len(cleaned)
        /\ metadata.totalStrings = BucketTotal(Len(category_order))
        /\ INSTRUCTIONS_txt \in DOMAIN disk =>
               disk[INSTRUCTIONS_txt].TotalStrings = Str(Len(cleaned))
        /\ SUMMARY_csv \in DOMAIN disk =>
               disk[SUMMARY_csv][4] = <<<<"T","o","t","a","l"," ","S","t","r","i","n","g","s"," ","F","o","u","n","d",":">>, Str(Len(cleaned))>>
        /\ Len(writer) >= 1 => writer[1].rows[2][2] = Len(cleaned)
        /\ Len(writer) >= 2 => writer[2].rows[4][2] = Len(cleaned)

\* three records loaded, two returned, in two buckets, and both files written
C23_Witness ==
    /\ pc = "created"
    /\ Len(heap0) = 3
    /\ Len(cleaned) = 2
    /\ Cardinality({c \in Range(category_order) : Len(sheets_data[c]) = 1}) = 2
    /\ SUMMARY_csv \in DOMAIN disk

(***************************************************************************)
(* File names and sheet names (SpecSheetName).                             *)
(***************************************************************************)
\* C24: for each fixed category the sheet name csv_to_excel derives from
\* the file name create_csv_files gave it is the category name with '/'
\* replaced by '-', whatever the file's number; it has at most 31 characters
\* and differs from the name derived for every other category.
C24_SheetNameIsCategory ==
    pc = "named" =>
        /\ text = Replace(Chars(category_order[i]), "/", "-")
        /\ Len(text) <= 31
        /\ \A j \in 1..Len(category_order) : \A k \in 0..(Len(category_order) - 1) :
               j # i => SheetName(CategoryFileName(k, category_order[j])) # text

\* the sheet of 'Common/Shared', written as the twelfth file
C24_Witness ==
    /\ pc = "named"
    /\ category_order[i] = "Common/Shared"
    /\ file_count = 11
    /\ text = <<"C","o","m","m","o","n","-","S","h","a","r","e","d">>

(***************************************************************************)
(* What the pass leaves alone (SpecCleanNotes, SpecClean, SpecCleanTwice). *)
(***************************************************************************)
\* C25: the pass leaves the input list as long as it was and in the order
\* it had, and changes no input record but the first accepted record of a
\* key: a record the Classifier rejects and a record merged into an earlier
\* one keep their four fields.
C25_OnlyFirstSeenChanges ==
    call = 1 =>
        /\ strings_data = Ids(Len(heap0))
        /\ Len(heap) = Len(heap0)
        /\ \A k \in 1..Len(heap0) :
               (~Accepted(k) \/ k # FirstOf(NormKey(heap0[k]))) =>
                   /\ heap[k].text = heap0[k].text
                   /\ heap[k].screenContext = heap0[k].screenContext
                   /\ heap[k].category = heap0[k].category
                   /\ heap[k].notes = heap0[k].notes

\* the first record got the context of the second, which was merged into
\* it; the third was rejected
C25_Witness ==
    /\ Returned1
    /\ Len(heap0) = 3
    /\ Accepted(1) /\ Accepted(2) /\ ~Accepted(3)
    /\ NormKey(heap0[2]) = NormKey(heap0[1])
    /\ heap[1].screenContext # heap0[1].screenContext
    /\ heap0[2].notes # heap0[1].notes

\* C26: no output record has a text the classifier rejects, and the
\* screenContext of a rejected record is not taken into an output record,
\* also when the output record has the rejected record's key: unless an
\* accepted record of the key brought that context, the output lacks it.
C26_RejectedContributeNothing ==
    Returned1 =>
        \A a \in 1..Len(cleaned) :
            /\ ~IsTechnical(script, heap[cleaned[a]].text)
            /\ Accepted(cleaned[a])
            /\ \A k \in 1..Len(heap0) :
                   (/\ ~Accepted(k)
                    /\ NormKey(heap0[k]) = NormKey(heap[cleaned[a]])
                    /\ \A j \in AcceptedOf(NormKey(heap0[k])) :
                           ~Contains(heap0[j].screenContext, heap0[k].screenContext))
                   => ~Contains(heap[cleaned[a]].screenContext, heap0[k].screenContext)

\* a rejected record of an output record's key came after it with a context
\* no accepted record has
C26_Witness ==
    /\ Returned1
    /\ Len(heap0) = 2
    /\ Len(cleaned) = 1
    /\ Accepted(1) /\ ~Accepted(2)
    /\ NormKey(heap0[2]) = NormKey(heap0[1])
    /\ ~Contains(heap0[1].screenContext, heap0[2].screenContext)

\* C27: a second call on the same input list, after the first call changed
\* its first-seen records in place, returns the same records in the same
\* order with the same screenContext: nothing is appended a second time.
C27_SameInputSameOutput ==
    (pc = "returned" /\ call = 3) =>
        /\ Values(cleaned) = first
        /\ \A a \in 1..Len(cleaned) : cleaned[a] = FirstOf(NormKey(heap0[cleaned[a]]))
        /\ \A a, b \in 1..Len(cleaned) : a < b => cleaned[a] < cleaned[b]

\* the second call returned; the first had appended a context to a record
C27_Witness ==
    /\ pc = "returned"
    /\ call = 3
    /\ Len(heap0) = 3
    /\ Len(first) = 2
    /\ \E a \in 1..2 : Contains(first[a].screenContext, <<";", " ">>)

(***************************************************************************)
(* The two copies of the classifier (SpecClassify).                        *)
(***************************************************************************)
\* C28: the two copies of the cleaning pass agree: _is_technical_string of
\* generate_excel.py decides every text as _is_technical_string of
\* generate_excel_simple.py does.
C28_ClassifiersAgree ==
    (verdict["simple"] # "none" /\ verdict["full"] # "none") =>
        verdict["simple"] = verdict["full"]

(***************************************************************************)
(* The notification workbook (SpecNotifications).                          *)
(***************************************************************************)
\* the rows of the sheet "All Notifications" written so far
NotificationRows(sheet) == {p[1] : p \in {q \in DOMAIN sheet.cells : q[1] > 1 /\ q[2] = 2}}

\* the number of rows of the sheet of the given category and status
StatusRows(sheet, category, status) ==
    Cardinality({r \in NotificationRows(sheet) :
                    sheet.cells[<<r, 3>>] = category /\ sheet.cells[<<r, 2>>] = status})

\* C29: every entry of create_notifications_excel_complete.py is ACTIVE or
\* PENDING, so that the Active and the Pending count of the summary add up
\* to Total Notifications, and every SOCIAL or CHAT entry is ACTIVE, as the
\* label "(all active)" of their counts says.
C29_StatusesAddUp ==
    script = "complete" =>
        /\ \A r \in NotificationRows(wb[Len(wb)]) :
               LET cells == wb[Len(wb)].cells
               IN  /\ cells[<<r, 2>>] \in {"ACTIVE", "PENDING"}
                   /\ cells[<<r, 3>>] \in {"SOCIAL", "CHAT"} => cells[<<r, 2>>] = "ACTIVE"
        /\ pc = "saved" =>
               LET summary == disk[filename][1].cells
                   sheet == disk[filename][2]
               IN  /\ summary[<<6, 2>>] = Cardinality(NotificationRows(sheet))
                   /\ summary[<<7, 2>>] + summary[<<8, 2>>] = summary[<<6, 2>>]
                   /\ summary[<<12, 2>>] =
                          Str(StatusRows(sheet, "SOCIAL", "ACTIVE")) \o <<" ","(","a","l","l"," ","a","c","t","i","v","e",")">>
                   /\ summary[<<13, 2>>] =
                          Str(StatusRows(sheet, "CHAT", "ACTIVE")) \o <<" ","(","a","l","l"," ","a","c","t","i","v","e",")">>

\* the workbook is saved with its 38 rows, 34 of them active and 4 pending,
\* and social and chat rows among them
C29_Witness ==
    /\ script = "complete"
    /\ pc = "saved"
    /\ disk[filename][1].name = "Summary & Statistics"
    /\ disk[filename][1].cells[<<6, 1>>] = "Total Notifications:"
    /\ disk[filename][1].cells[<<6, 2>>] = 38
    /\ disk[filename][1].cells[<<7, 2>>] = 34
    /\ disk[filename][1].cells[<<8, 2>>] = 4
    /\ StatusRows(disk[filename][2], "SOCIAL", "ACTIVE") = 4
    /\ StatusRows(disk[filename][2], "CHAT", "ACTIVE") = 2
====
